---- MODULE Spec2Model ----
(***************************************************************************)
(* Model of the forest-fire-prediction backend: the relational store       *)
(* (users, fire risk zones, incidents, saved regions, alerts), the service *)
(* functions of app/services/fire_risk_service.py and the FastAPI          *)
(* endpoints that call them.                                               *)
(*                                                                         *)
(* Units.  risk_level and alert_threshold are counted in tenths            *)
(* (1.0 = RiskOne = 10), latitude, longitude and tolerance in hundredths   *)
(* of a degree (the default tolerance 0.01 = 1), time in half hours        *)
(* (timedelta(hours=1) = Hour = 2).  Only finite numbers are modelled.     *)
(***************************************************************************)
EXTENDS Integers, Sequences, FiniteSets, TLC

VARIABLES users, zones, incidents, regions, alerts, now, resp, scan, inflight,
          sessions, firebase

vars ==
    <<users, zones, incidents, regions, alerts, now, resp, scan, inflight, sessions,
      firebase>>

(***************************************************************************)
(* Bounds of the model.                                                    *)
(***************************************************************************)
MaxZoneId == 2
MaxIncidentId == 2
MaxRegionId == 2
MaxAlertId == 2
MaxTime == 2
MaxInflight == 1
MaxUserId == 3
MaxRequests == 3

(***************************************************************************)
(* Python None and "field not present in the request body".                *)
(***************************************************************************)
NULL == -100
UNSET == -101
NullStr == "NULL"
UnsetStr == "UNSET"
NullName == <<"NULL">>
UnsetName == <<"UNSET">>

RiskOne == 10
Hour == 2
DefaultTolerance == 1
DefaultThreshold == 7

(***************************************************************************)
(* Helpers.                                                                *)
(***************************************************************************)
MaxOf(S) == CHOOSE m \in S : \A x \in S : x <= m

Ids(S) == {r.id : r \in S}

\* INTEGER PRIMARY KEY of a table: one more than the largest id stored.
NewId(S) == IF S = {} THEN 1 ELSE MaxOf(Ids(S)) + 1

ById(S, id) == {r \in S : r.id = id}

Min2(a, b) == IF a <= b THEN a ELSE b

(***************************************************************************)
(* app/api/deps.py                                                         *)
(***************************************************************************)
\* caller 0 stands for a request whose bearer token does not decode.
get_current_user(c) ==
    IF c = 0 THEN 403
    ELSE IF ById(users, c) = {} THEN 404
    ELSE IF ~(CHOOSE u \in ById(users, c) : TRUE).is_active THEN 400
    ELSE 200

CurrentUser(c) == CHOOSE u \in ById(users, c) : TRUE

\* As get_current_active_superuser, without the is_superuser test.
get_current_active_superuser_any(c) == get_current_user(c)

get_current_active_superuser(c) ==
    IF get_current_user(c) # 200 THEN get_current_user(c)
    ELSE IF ~CurrentUser(c).is_superuser THEN 403
    ELSE 200

(***************************************************************************)
(* app/schemas/fire_risk.py : FireRiskZoneBase and its subclasses          *)
(***************************************************************************)
validate_risk_level_lax(v) == ~(v < 0)

validate_risk_level(v) == ~(v < 0 \/ v > RiskOne)

valid_categories == {"Low", "Medium", "High"}

validate_risk_category(v) == v \in valid_categories

\* FireRiskZoneCreate(**body) succeeds: every required field is present and
\* not None, and both validators accept.
FireRiskZoneCreate(p) ==
    /\ p.region_name \notin {UnsetName, NullName}
    /\ p.latitude \notin {UNSET, NULL}
    /\ p.longitude \notin {UNSET, NULL}
    /\ p.risk_level \notin {UNSET, NULL}
    /\ validate_risk_level(p.risk_level)
    /\ p.risk_category \notin {UnsetStr, NullStr}
    /\ validate_risk_category(p.risk_category)

\* As FireRiskZoneUpdate, with the validators skipped on None.
FireRiskZoneUpdate_skip_none(p) ==
    /\ p.risk_level \in {UNSET, NULL} \/ validate_risk_level(p.risk_level)
    /\ p.risk_category \in {UnsetStr, NullStr} \/ validate_risk_category(p.risk_category)

\* FireRiskZoneUpdate(**body) succeeds.  The fields are Optional; a field
\* that is absent is not validated; the inherited validators run on every
\* value that is present, None included (on None validate_risk_level raises
\* TypeError and validate_risk_category raises ValueError, both reported as
\* a validation error).
FireRiskZoneUpdate(p) ==
    /\ \/ p.risk_level = UNSET
       \/ p.risk_level # NULL /\ validate_risk_level(p.risk_level)
    /\ \/ p.risk_category = UnsetStr
       \/ p.risk_category # NullStr /\ validate_risk_category(p.risk_category)

\* response_model=schemas.FireRiskZone: a row is serialised only if every
\* required field is not None and the validators accept it; otherwise the
\* request ends in an internal server error.
FireRiskZone(z) ==
    /\ z.region_name # NullName
    /\ z.latitude # NULL
    /\ z.longitude # NULL
    /\ z.risk_level # NULL
    /\ validate_risk_level(z.risk_level)
    /\ z.risk_category # NullStr
    /\ validate_risk_category(z.risk_category)

\* the status of a handler that has run to its return statement
Returned(valid) == IF valid THEN 200 ELSE 500

(***************************************************************************)
(* app/services/fire_risk_service.py : zones                               *)
(***************************************************************************)
\* As get_fire_risk_zone, ignoring the id.
get_fire_risk_zone_any(zone_id) == zones

get_fire_risk_zone(zone_id) == ById(zones, zone_id)

\* models.FireRiskZone(**fire_risk_in.dict()) with the column defaults.
NewZone(p) ==
    [id |-> NewId(zones),
     region_name |-> p.region_name,
     latitude |-> p.latitude,
     longitude |-> p.longitude,
     risk_level |-> p.risk_level,
     risk_category |-> p.risk_category,
     timestamp |-> now]

create_fire_risk_zone(p) == zones \cup {NewZone(p)}

\* setattr for every field of fire_risk_in.dict(exclude_unset=True)
\* As ApplyZoneUpdate, with None taken as absent.
ApplyZoneUpdate_skip_none(z, p) ==
    [z EXCEPT
       !.region_name = IF p.region_name \in {UnsetName, NullName} THEN @
                       ELSE p.region_name,
       !.latitude = IF p.latitude \in {UNSET, NULL} THEN @ ELSE p.latitude,
       !.longitude = IF p.longitude \in {UNSET, NULL} THEN @ ELSE p.longitude,
       !.risk_level = IF p.risk_level \in {UNSET, NULL} THEN @ ELSE p.risk_level,
       !.risk_category = IF p.risk_category \in {UnsetStr, NullStr} THEN @
                         ELSE p.risk_category]

ApplyZoneUpdate(z, p) ==
    [z EXCEPT
       !.region_name = IF p.region_name = UnsetName THEN @ ELSE p.region_name,
       !.latitude = IF p.latitude = UNSET THEN @ ELSE p.latitude,
       !.longitude = IF p.longitude = UNSET THEN @ ELSE p.longitude,
       !.risk_level = IF p.risk_level = UNSET THEN @ ELSE p.risk_level,
       !.risk_category = IF p.risk_category = UnsetStr THEN @ ELSE p.risk_category]

update_fire_risk_zone(zone_id, p) ==
    {IF z.id = zone_id THEN ApplyZoneUpdate(z, p) ELSE z : z \in zones}


\* As delete_fire_risk_zone, with a delete cascade to the incidents.
delete_fire_risk_zone_cascade(zone_id) ==
    IF get_fire_risk_zone(zone_id) = {}
    THEN [ok |-> FALSE, zones |-> zones, incidents |-> incidents, alerts |-> alerts]
    ELSE [ok |-> TRUE,
          zones |-> zones \ get_fire_risk_zone(zone_id),
          incidents |-> {i \in incidents : i.risk_zone_id # zone_id},
          alerts |-> {IF a.risk_zone_id = zone_id
                      THEN [a EXCEPT !.risk_zone_id = NULL] ELSE a : a \in alerts}]

\* db.delete(zone); db.commit().  The relationships fire_incidents and alerts
\* of models.FireRiskZone carry no delete cascade, so the session sets the
\* foreign key of every incident and alert of the zone to NULL on flush.
delete_fire_risk_zone(zone_id) ==
    IF get_fire_risk_zone(zone_id) = {}
    THEN [ok |-> FALSE, zones |-> zones, incidents |-> incidents, alerts |-> alerts]
    ELSE [ok |-> TRUE,
          zones |-> zones \ get_fire_risk_zone(zone_id),
          incidents |-> {IF i.risk_zone_id = zone_id
                         THEN [i EXCEPT !.risk_zone_id = NULL] ELSE i : i \in incidents},
          alerts |-> {IF a.risk_zone_id = zone_id
                      THEN [a EXCEPT !.risk_zone_id = NULL] ELSE a : a \in alerts}]

\* column.between(lo, hi): lo <= column AND column <= hi; NULL never matches.
BetweenOpen(v, lo, hi) == v # NULL /\ lo < v /\ v < hi

Between(v, lo, hi) == v # NULL /\ lo <= v /\ v <= hi

CoordCandidates(latitude, longitude, tolerance) ==
    {z \in zones :
        /\ Between(z.latitude, latitude - tolerance, latitude + tolerance)
        /\ Between(z.longitude, longitude - tolerance, longitude + tolerance)}

\* ORDER BY timestamp DESC ... first(): the rows a database may put first.
LatestOf(S) == {z \in S : \A y \in S : y.timestamp <= z.timestamp}

\* The values get_fire_risk_zone_by_coords may return: zones (a set with one
\* zone for each row the query may put first), or the empty set for None.
\* As get_fire_risk_zone_by_coords, matching the exact coordinates only.
get_fire_risk_zone_by_exact_coords(latitude, longitude, tolerance) ==
    LatestOf(CoordCandidates(latitude, longitude, 0))

get_fire_risk_zone_by_coords(latitude, longitude, tolerance) ==
    LatestOf(CoordCandidates(latitude, longitude, tolerance))

(***************************************************************************)
(* Zone list: filters, ORDER BY risk_level DESC, OFFSET/LIMIT.             *)
(***************************************************************************)
Lower(ch) == IF ch = "A" THEN "a" ELSE IF ch = "B" THEN "b" ELSE ch

\* name ILIKE '%pat%' for a pattern without wildcard characters
ILikeContains(name, pat) ==
    /\ name # NullName
    /\ \E i \in 0 .. (Len(name) - Len(pat)) :
          \A j \in 1 .. Len(pat) : Lower(name[i + j]) = Lower(pat[j])

MinFilterStrict(z, f) ==
    f.min_risk_level = NULL \/ (z.risk_level # NULL /\ z.risk_level > f.min_risk_level)

MinFilter(z, f) ==
    f.min_risk_level = NULL \/ (z.risk_level # NULL /\ z.risk_level >= f.min_risk_level)

ZoneMatches(z, f) ==
    /\ MinFilter(z, f)
    /\ f.max_risk_level = NULL \/ (z.risk_level # NULL /\ z.risk_level <= f.max_risk_level)
    /\ f.region_name \in {NullName, <<>>} \/ ILikeContains(z.region_name, f.region_name)
    /\ f.risk_category \in {NullStr, ""} \/ z.risk_category = f.risk_category

ZoneQuery(f) == {z \in zones : ZoneMatches(z, f)}

\* The row orders ORDER BY risk_level DESC allows: rows of equal risk_level
\* come in any order, chosen anew by every query.
RiskDescOrders(S) ==
    {s \in [1 .. Cardinality(S) -> S] :
        /\ \A i, j \in 1 .. Cardinality(S) : i # j => s[i] # s[j]
        /\ \A i, j \in 1 .. Cardinality(S) : i < j => s[i].risk_level >= s[j].risk_level}

\* query.offset(skip).limit(limit).all()
OffsetLimit(s, skip, limit) ==
    [k \in 1 .. (Min2(Len(s), skip + limit) - Min2(Len(s), skip)) |-> s[skip + k]]

\* The lists get_fire_risk_zones may return.
get_fire_risk_zones(skip, limit, f) ==
    {OffsetLimit(s, skip, limit) : s \in RiskDescOrders(ZoneQuery(f))}


(***************************************************************************)
(* Requests.  resp describes the request served last: the handler, the     *)
(* caller, the request data, the HTTP status (or, for a direct call of a   *)
(* service function, 200) and the value returned.                          *)
(***************************************************************************)
Reply(op, c, req, status, out) ==
    [op |-> op, caller |-> c, req |-> req, status |-> status, out |-> out]

\* scan follows a client that pages through GET /zones with one filter and
\* one page size while the store is left alone: the pages received so far.
NoFilter ==
    [min_risk_level |-> NULL, max_risk_level |-> NULL,
     region_name |-> NullName, risk_category |-> NullStr]

NoScan ==
    [active |-> FALSE, f |-> NoFilter, limit |-> 0, next |-> 0,
     seen |-> <<>>, done |-> FALSE]

NextScan(skip, limit, f, page) ==
    IF skip = 0
    THEN [active |-> TRUE, f |-> f, limit |-> limit, next |-> limit,
          seen |-> page, done |-> Len(page) < limit]
    ELSE IF scan.active /\ ~scan.done /\ scan.f = f /\ scan.limit = limit
            /\ scan.next = skip
    THEN [scan EXCEPT !.next = skip + limit, !.seen = scan.seen \o page,
                      !.done = Len(page) < limit]
    ELSE NoScan

(***************************************************************************)
(* app/api/api_v1/endpoints/fire_risk.py : zones                           *)
(***************************************************************************)
read_fire_risk_zones(c, skip, limit, f) ==
    LET req == [skip |-> skip, limit |-> limit, f |-> f] IN
    /\ UNCHANGED <<firebase, sessions, inflight, users, zones, incidents, regions, alerts, now>>
    /\ IF get_current_user(c) # 200
       THEN /\ resp' = Reply("read_fire_risk_zones", c, req, get_current_user(c), <<>>)
            /\ scan' = NoScan
       ELSE \E page \in get_fire_risk_zones(skip, limit, f) :
            IF \A k \in 1 .. Len(page) : FireRiskZone(page[k])
            THEN /\ resp' = Reply("read_fire_risk_zones", c, req, 200, page)
                 /\ scan' = NextScan(skip, limit, f, page)
            ELSE /\ resp' = Reply("read_fire_risk_zones", c, req, 500, <<>>)
                 /\ scan' = NoScan

read_fire_risk_zone(c, zone_id) ==
    /\ UNCHANGED <<firebase, sessions, inflight, users, zones, incidents, regions, alerts, now>>
    /\ scan' = NoScan
    /\ resp' = Reply("read_fire_risk_zone", c, zone_id,
                     IF get_current_user(c) # 200 THEN get_current_user(c)
                     ELSE IF get_fire_risk_zone(zone_id) = {} THEN 404
                     ELSE Returned(\A z \in get_fire_risk_zone(zone_id) : FireRiskZone(z)),
                     IF get_current_user(c) # 200 THEN {}
                     ELSE {z \in get_fire_risk_zone(zone_id) : FireRiskZone(z)})

read_fire_risk_zone_by_coords(c, latitude, longitude, tolerance) ==
    LET req == [latitude |-> latitude, longitude |-> longitude,
                tolerance |-> tolerance]
        found == get_fire_risk_zone_by_coords(latitude, longitude, tolerance) IN
    /\ UNCHANGED <<firebase, sessions, inflight, users, zones, incidents, regions, alerts, now>>
    /\ scan' = NoScan
    /\ IF get_current_user(c) # 200
       THEN resp' = Reply("read_fire_risk_zone_by_coords", c, req,
                          get_current_user(c), {})
       ELSE IF found = {}
       THEN resp' = Reply("read_fire_risk_zone_by_coords", c, req, 404, {})
       ELSE \E z \in found :
               resp' = Reply("read_fire_risk_zone_by_coords", c, req,
                             Returned(FireRiskZone(z)),
                             IF FireRiskZone(z) THEN {z} ELSE {})

endpoint_create_fire_risk_zone(c, p) ==
    /\ UNCHANGED <<firebase, sessions, inflight, users, incidents, regions, alerts, now>>
    /\ scan' = NoScan
    /\ IF get_current_active_superuser(c) # 200
       THEN /\ resp' = Reply("create_fire_risk_zone", c, p,
                             get_current_active_superuser(c), {})
            /\ zones' = zones
       ELSE IF ~FireRiskZoneCreate(p)
       THEN /\ resp' = Reply("create_fire_risk_zone", c, p, 422, {})
            /\ zones' = zones
       ELSE /\ NewId(zones) <= MaxZoneId
            /\ zones' = create_fire_risk_zone(p)
            /\ resp' = Reply("create_fire_risk_zone", c, p, 200, {NewZone(p)})

endpoint_update_fire_risk_zone(c, zone_id, p) ==
    LET req == [zone_id |-> zone_id, body |-> p] IN
    /\ UNCHANGED <<firebase, sessions, inflight, users, incidents, regions, alerts, now>>
    /\ scan' = NoScan
    /\ IF get_current_active_superuser(c) # 200
       THEN /\ resp' = Reply("update_fire_risk_zone", c, req,
                             get_current_active_superuser(c), {})
            /\ zones' = zones
       ELSE IF ~FireRiskZoneUpdate(p)
       THEN /\ resp' = Reply("update_fire_risk_zone", c, req, 422, {})
            /\ zones' = zones
       ELSE IF get_fire_risk_zone(zone_id) = {}
       THEN /\ resp' = Reply("update_fire_risk_zone", c, req, 404, {})
            /\ zones' = zones
       ELSE /\ zones' = update_fire_risk_zone(zone_id, p)
            /\ resp' = Reply("update_fire_risk_zone", c, req,
                             Returned(\A z \in get_fire_risk_zone(zone_id) :
                                         FireRiskZone(ApplyZoneUpdate(z, p))),
                             {ApplyZoneUpdate(z, p) : z \in get_fire_risk_zone(zone_id)})

endpoint_delete_fire_risk_zone(c, zone_id) ==
    LET d == delete_fire_risk_zone(zone_id) IN
    /\ UNCHANGED <<firebase, sessions, inflight, users, regions, now>>
    /\ scan' = NoScan
    /\ IF get_current_active_superuser(c) # 200
       THEN /\ resp' = Reply("delete_fire_risk_zone", c, zone_id,
                             get_current_active_superuser(c), {})
            /\ UNCHANGED <<zones, incidents, alerts>>
       ELSE IF get_fire_risk_zone(zone_id) = {}
       THEN /\ resp' = Reply("delete_fire_risk_zone", c, zone_id, 404, {})
            /\ UNCHANGED <<zones, incidents, alerts>>
       ELSE /\ zones' = d.zones
            /\ incidents' = d.incidents
            /\ alerts' = d.alerts
            /\ resp' = Reply("delete_fire_risk_zone", c, zone_id,
                             IF d.ok THEN 200 ELSE 500, {})

(***************************************************************************)
(* app/api/api_v1/endpoints/predictions.py                                 *)
(***************************************************************************)
\* As RiskCategoryOf, with High from 0.7 on.
RiskCategoryOf_inclusive(risk_level) ==
    IF risk_level >= 7 THEN "High" ELSE IF risk_level > 4 THEN "Medium" ELSE "Low"

\* risk_category = "Low"; if risk_level > 0.7: "High"; elif > 0.4: "Medium"
RiskCategoryOf(risk_level) ==
    IF risk_level > 7 THEN "High" ELSE IF risk_level > 4 THEN "Medium" ELSE "Low"

\* Python truth value of an Optional[float]
Truthy(v) == v # NULL /\ v # 0

\* current_user.alert_threshold and risk_level >= current_user.alert_threshold
AlertDecision(threshold, risk_level) == Truthy(threshold) /\ risk_level >= threshold

\* The Boolean columns of an alert are nullable.  nulls is the set of the
\* flag columns that hold NULL; the field of such a column is FALSE.
AlertFlags == {"is_read", "is_sent_email", "is_sent_sms"}

NewAlertRead(user_id, risk_zone_id, risk_level) ==
    [id |-> NewId(alerts), user_id |-> user_id, risk_zone_id |-> risk_zone_id,
     risk_level |-> risk_level, message |-> "High fire risk detected",
     alert_time |-> now,
     is_read |-> TRUE, is_sent_email |-> FALSE, is_sent_sms |-> FALSE,
     nulls |-> {}]

\* models.Alert(...) of create_alert_for_user
NewAlert(user_id, risk_zone_id, risk_level) ==
    [id |-> NewId(alerts), user_id |-> user_id, risk_zone_id |-> risk_zone_id,
     risk_level |-> risk_level, message |-> "High fire risk detected",
     alert_time |-> now,
     is_read |-> FALSE, is_sent_email |-> FALSE, is_sent_sms |-> FALSE,
     nulls |-> {}]

create_alert_for_user(user_id, risk_zone_id, risk_level) ==
    alerts \cup {NewAlert(user_id, risk_zone_id, risk_level)}

\* The body the handler builds for a drawn risk_level.
PredictedBody(latitude, longitude, risk_level) ==
    [region_name |-> <<"a">>, latitude |-> latitude, longitude |-> longitude,
     risk_level |-> risk_level, risk_category |-> RiskCategoryOf(risk_level)]

\* risk_level is the value random.uniform(0, 1) returns in this request.
\* out.created tells whether a zone was created, out.decision the value of
\* the condition that guards create_alert_for_user.
predict_fire_risk_zone(c, latitude, longitude, risk_level) ==
    LET req == [latitude |-> latitude, longitude |-> longitude]
        found == get_fire_risk_zone_by_coords(latitude, longitude, DefaultTolerance)
        body == PredictedBody(latitude, longitude, risk_level)
        decision == AlertDecision(CurrentUser(c).alert_threshold, risk_level)
        Recent(z) == z.timestamp > now - Hour
        Create ==
            /\ FireRiskZoneCreate(body)
            /\ NewId(zones) <= MaxZoneId
            /\ zones' = create_fire_risk_zone(body)
            /\ IF decision
               THEN /\ NewId(alerts) <= MaxAlertId
                    /\ alerts' = create_alert_for_user(c, NewZone(body).id, risk_level)
               ELSE alerts' = alerts
            /\ resp' = Reply("predict_fire_risk_zone", c, req, 200,
                             [zone |-> NewZone(body), created |-> TRUE,
                              decision |-> decision])
    IN
    /\ UNCHANGED <<firebase, sessions, inflight, users, incidents, regions, now>>
    /\ scan' = NoScan
    /\ IF get_current_user(c) # 200
       THEN /\ resp' = Reply("predict_fire_risk_zone", c, req, get_current_user(c), {})
            /\ UNCHANGED <<zones, alerts>>
       ELSE \/ \E z \in found :
                  /\ Recent(z)
                  /\ resp' = Reply("predict_fire_risk_zone", c, req,
                                   Returned(FireRiskZone(z)),
                                   [zone |-> z, created |-> FALSE, decision |-> FALSE])
                  /\ UNCHANGED <<zones, alerts>>
            \/ /\ \/ found = {}
                  \/ \E z \in found : ~Recent(z)
               /\ Create

(***************************************************************************)
(* Incidents: app/schemas/fire_risk.py (FireIncidentBase and subclasses),  *)
(* app/services/fire_risk_service.py, endpoints/fire_incidents.py.         *)
(* Modelled fields: risk_zone_id, latitude, longitude, start_date,         *)
(* end_date, severity, status, source, description.  The request bodies    *)
(* carry no description (Optional[str] = None); a description is a         *)
(* sequence of tokens.                                                     *)
(***************************************************************************)
valid_severities == {"Low", "Medium", "High"}
valid_statuses == {"Active", "Contained", "Extinguished"}
valid_sources ==
    {"Satellite", "Ground Report", "Official", "NASA FIRMS Realtime",
     "NIFC Realtime", "Test Script"}

FireIncidentCreate(p) ==
    /\ p.risk_zone_id \notin {UNSET, NULL}
    /\ p.latitude \notin {UNSET, NULL}
    /\ p.longitude \notin {UNSET, NULL}
    /\ p.start_date \notin {UNSET, NULL}
    /\ p.severity \in valid_severities
    /\ p.status \in valid_statuses
    /\ p.source \in valid_sources

\* Optional fields; the inherited validators run on every value supplied.
FireIncidentUpdate(p) ==
    /\ p.severity = UnsetStr \/ p.severity \in valid_severities
    /\ p.status = UnsetStr \/ p.status \in valid_statuses
    /\ p.source = UnsetStr \/ p.source \in valid_sources

\* response_model=schemas.FireIncident, as FireRiskZone above
FireIncident(i) ==
    /\ i.risk_zone_id # NULL
    /\ i.latitude # NULL
    /\ i.longitude # NULL
    /\ i.start_date # NULL
    /\ i.severity \in valid_severities
    /\ i.status \in valid_statuses
    /\ i.source \in valid_sources

\* models.FireIncident(**incident_in.dict()); end_date defaults to None
NewIncident(p) ==
    [id |-> NewId(incidents),
     risk_zone_id |-> p.risk_zone_id,
     latitude |-> p.latitude,
     longitude |-> p.longitude,
     start_date |-> p.start_date,
     end_date |-> IF p.end_date = UNSET THEN NULL ELSE p.end_date,
     severity |-> p.severity,
     status |-> p.status,
     source |-> p.source,
     description |-> NullName]

create_fire_incident(p) == incidents \cup {NewIncident(p)}

ApplyIncidentUpdate(i, p) ==
    [i EXCEPT
       !.risk_zone_id = IF p.risk_zone_id = UNSET THEN @ ELSE p.risk_zone_id,
       !.latitude = IF p.latitude = UNSET THEN @ ELSE p.latitude,
       !.longitude = IF p.longitude = UNSET THEN @ ELSE p.longitude,
       !.start_date = IF p.start_date = UNSET THEN @ ELSE p.start_date,
       !.end_date = IF p.end_date = UNSET THEN @ ELSE p.end_date,
       !.severity = IF p.severity = UnsetStr THEN @ ELSE p.severity,
       !.status = IF p.status = UnsetStr THEN @ ELSE p.status,
       !.source = IF p.source = UnsetStr THEN @ ELSE p.source]

NoIncidentFilter ==
    [region_name |-> NullName, start_date_from |-> NULL, start_date_to |-> NULL,
     status |-> NullStr, severity |-> NullStr]

\* As StartFromFilter, with a strict comparison.
StartFromFilterStrict(i, f) ==
    f.start_date_from = NULL
    \/ (i.start_date # NULL /\ i.start_date > f.start_date_from)

\* if start_date_from: filter(start_date >= start_date_from); a datetime is
\* always true, and a NULL start_date satisfies no comparison
StartFromFilter(i, f) ==
    f.start_date_from = NULL
    \/ (i.start_date # NULL /\ i.start_date >= f.start_date_from)

\* the filters of get_fire_incidents; `if region_name:`, `if status:` and
\* `if severity:` skip an empty string as they skip None; the region name
\* is matched on the zone joined by risk_zone_id (inner join)
IncidentMatches(i, f) ==
    /\ f.region_name \in {NullName, <<>>}
       \/ \E z \in zones : /\ z.id = i.risk_zone_id
                           /\ ILikeContains(z.region_name, f.region_name)
    /\ StartFromFilter(i, f)
    /\ f.start_date_to = NULL
       \/ (i.start_date # NULL /\ i.start_date <= f.start_date_to)
    /\ f.status \in {NullStr, ""} \/ i.status = f.status
    /\ f.severity \in {NullStr, ""} \/ i.severity = f.severity

IncidentQuery(f) == {i \in incidents : IncidentMatches(i, f)}

\* The row orders ORDER BY start_date DESC allows: rows of equal start_date
\* come in any order, and the rows with a NULL start_date come together,
\* first or last as the database sorts NULL.
StartDescOrders(S) ==
    {s \in [1 .. Cardinality(S) -> S] :
        /\ \A i, j \in 1 .. Cardinality(S) : i # j => s[i] # s[j]
        /\ \A i, j \in 1 .. Cardinality(S) :
              (i < j /\ s[i].start_date # NULL /\ s[j].start_date # NULL)
                 => s[i].start_date >= s[j].start_date
        /\ \/ \A i, j \in 1 .. Cardinality(S) :
                 (i < j /\ s[i].start_date = NULL) => s[j].start_date = NULL
           \/ \A i, j \in 1 .. Cardinality(S) :
                 (i < j /\ s[j].start_date = NULL) => s[i].start_date = NULL}

\* The lists get_fire_incidents may return.
get_fire_incidents(skip, limit, f) ==
    {OffsetLimit(s, skip, limit) : s \in StartDescOrders(IncidentQuery(f))}

\* The handler copies the rows into dictionaries (float(incident.latitude)
\* raises on None; any exception is answered 500), which are then validated
\* against the response model.
read_fire_incidents(c, skip, limit, f) ==
    LET req == [skip |-> skip, limit |-> limit, f |-> f] IN
    /\ UNCHANGED <<firebase, sessions, inflight, users, zones, incidents, regions, alerts, now>>
    /\ scan' = NoScan
    /\ IF get_current_user(c) # 200
       THEN resp' = Reply("read_fire_incidents", c, req, get_current_user(c), <<>>)
       ELSE \E page \in get_fire_incidents(skip, limit, f) :
               IF \A k \in 1 .. Len(page) : FireIncident(page[k])
               THEN resp' = Reply("read_fire_incidents", c, req, 200, page)
               ELSE resp' = Reply("read_fire_incidents", c, req, 500, <<>>)

read_fire_incident(c, incident_id) ==
    /\ UNCHANGED <<firebase, sessions, inflight, users, zones, incidents, regions, alerts, now>>
    /\ scan' = NoScan
    /\ resp' = Reply("read_fire_incident", c, incident_id,
                     IF get_current_user(c) # 200 THEN get_current_user(c)
                     ELSE IF ById(incidents, incident_id) = {} THEN 404
                     ELSE Returned(\A i \in ById(incidents, incident_id) : FireIncident(i)),
                     IF get_current_user(c) # 200 THEN {}
                     ELSE {i \in ById(incidents, incident_id) : FireIncident(i)})

endpoint_create_fire_incident(c, p) ==
    /\ UNCHANGED <<firebase, sessions, inflight, users, zones, regions, alerts, now>>
    /\ scan' = NoScan
    /\ IF get_current_active_superuser(c) # 200
       THEN /\ resp' = Reply("create_fire_incident", c, p,
                             get_current_active_superuser(c), {})
            /\ incidents' = incidents
       ELSE IF ~FireIncidentCreate(p)
       THEN /\ resp' = Reply("create_fire_incident", c, p, 422, {})
            /\ incidents' = incidents
       ELSE IF get_fire_risk_zone(p.risk_zone_id) = {}
       THEN /\ resp' = Reply("create_fire_incident", c, p, 404, {})
            /\ incidents' = incidents
       ELSE /\ NewId(incidents) <= MaxIncidentId
            /\ incidents' = create_fire_incident(p)
            /\ resp' = Reply("create_fire_incident", c, p, 200, {NewIncident(p)})

update_fire_incident(c, incident_id, p) ==
    LET req == [incident_id |-> incident_id, body |-> p]
        found == ById(incidents, incident_id)
        \* incident_in.risk_zone_id is not None and differs from the stored one
        Rezoned(i) == p.risk_zone_id \notin {UNSET, NULL}
                      /\ p.risk_zone_id # i.risk_zone_id IN
    /\ UNCHANGED <<firebase, sessions, inflight, users, zones, regions, alerts, now>>
    /\ scan' = NoScan
    /\ IF get_current_active_superuser(c) # 200
       THEN /\ resp' = Reply("update_fire_incident", c, req,
                             get_current_active_superuser(c), {})
            /\ incidents' = incidents
       ELSE IF ~FireIncidentUpdate(p)
       THEN /\ resp' = Reply("update_fire_incident", c, req, 422, {})
            /\ incidents' = incidents
       ELSE IF found = {}
       THEN /\ resp' = Reply("update_fire_incident", c, req, 404, {})
            /\ incidents' = incidents
       ELSE IF \E i \in found : Rezoned(i) /\ get_fire_risk_zone(p.risk_zone_id) = {}
       THEN /\ resp' = Reply("update_fire_incident", c, req, 404, {})
            /\ incidents' = incidents
       ELSE /\ incidents' = {IF i.id = incident_id THEN ApplyIncidentUpdate(i, p)
                                                   ELSE i : i \in incidents}
            /\ resp' = Reply("update_fire_incident", c, req,
                             Returned(\A i \in found :
                                         FireIncident(ApplyIncidentUpdate(i, p))),
                             {ApplyIncidentUpdate(i, p) : i \in found})

delete_fire_incident(c, incident_id) ==
    /\ UNCHANGED <<firebase, sessions, inflight, users, zones, regions, alerts, now>>
    /\ scan' = NoScan
    /\ IF get_current_active_superuser(c) # 200
       THEN /\ resp' = Reply("delete_fire_incident", c, incident_id,
                             get_current_active_superuser(c), {})
            /\ incidents' = incidents
       ELSE IF ById(incidents, incident_id) = {}
       THEN /\ resp' = Reply("delete_fire_incident", c, incident_id, 404, {})
            /\ incidents' = incidents
       ELSE /\ incidents' = incidents \ ById(incidents, incident_id)
            /\ resp' = Reply("delete_fire_incident", c, incident_id, 200, {})

\* Requests are served by a pool of threads, each with its own session: a
\* second request may commit between the zone check of create_fire_incident
\* and its insert.  begin_create_fire_incident is the handler up to and
\* including the zone check, finish_create_fire_incident the call of the
\* service and the return.
begin_create_fire_incident(c, p) ==
    /\ get_current_active_superuser(c) = 200
    /\ FireIncidentCreate(p)
    /\ get_fire_risk_zone(p.risk_zone_id) # {}
    /\ Cardinality(inflight) < MaxInflight
    /\ inflight' = inflight \cup {[op |-> "create_fire_incident", caller |-> c,
                                   body |-> p]}
    /\ UNCHANGED <<firebase, sessions, users, zones, incidents, regions, alerts, now, resp, scan>>

\* The foreign key is checked by the database only where it enforces
\* foreign keys (PostgreSQL; SQLite only with PRAGMA foreign_keys): the
\* insert of a row whose zone is gone is stored, or fails the commit.
finish_create_fire_incident ==
    \E r \in inflight :
       /\ r.op = "create_fire_incident"
       /\ inflight' = inflight \ {r}
       /\ UNCHANGED <<firebase, sessions, users, zones, regions, alerts, now>>
       /\ scan' = NoScan
       /\ \/ /\ NewId(incidents) <= MaxIncidentId
             /\ incidents' = create_fire_incident(r.body)
             /\ resp' = Reply("create_fire_incident", r.caller, r.body, 200,
                              {NewIncident(r.body)})
          \/ /\ get_fire_risk_zone(r.body.risk_zone_id) = {}
             /\ incidents' = incidents
             /\ resp' = Reply("create_fire_incident", r.caller, r.body, 500, {})

(***************************************************************************)
(* Saved regions.  Modelled fields: user_id, alert_threshold, created_at.  *)
(***************************************************************************)
\* SavedRegionCreate(**body): user_id is required; alert_threshold defaults
\* to 0.7 when absent and is validated when supplied (None raises TypeError
\* in validate_threshold, reported as a validation error).
SavedRegionCreate(p) ==
    /\ p.user_id \notin {UNSET, NULL}
    /\ \/ p.alert_threshold = UNSET
       \/ p.alert_threshold # NULL
          /\ ~(p.alert_threshold < 0 \/ p.alert_threshold > RiskOne)

NewRegion(p) ==
    [id |-> NewId(regions),
     user_id |-> p.user_id,
     alert_threshold |-> IF p.alert_threshold = UNSET THEN DefaultThreshold
                         ELSE p.alert_threshold,
     created_at |-> now]

save_region_for_user(p) == regions \cup {NewRegion(p)}

\* As delete_saved_region, reporting success for a missing row.
delete_saved_region_silent(region_id) ==
    [ok |-> TRUE, regions |-> regions \ ById(regions, region_id)]

delete_saved_region(region_id) ==
    IF ById(regions, region_id) = {}
    THEN [ok |-> FALSE, regions |-> regions]
    ELSE [ok |-> TRUE, regions |-> regions \ ById(regions, region_id)]

\* As UserIdMatches, with the comparison left out.
UserIdMatchesAlways(p, c) == TRUE

\* region_in.user_id != current_user.id is false
UserIdMatches(p, c) == p.user_id = CurrentUser(c).id

create_saved_region(c, p) ==
    /\ UNCHANGED <<firebase, sessions, inflight, users, zones, incidents, alerts, now>>
    /\ scan' = NoScan
    /\ IF get_current_user(c) # 200
       THEN /\ resp' = Reply("create_saved_region", c, p, get_current_user(c), {})
            /\ regions' = regions
       ELSE IF ~SavedRegionCreate(p)
       THEN /\ resp' = Reply("create_saved_region", c, p, 422, {})
            /\ regions' = regions
       ELSE IF ~UserIdMatches(p, c)
       THEN /\ resp' = Reply("create_saved_region", c, p, 400, {})
            /\ regions' = regions
       ELSE /\ NewId(regions) <= MaxRegionId
            /\ regions' = save_region_for_user(p)
            /\ resp' = Reply("create_saved_region", c, p, 200, {NewRegion(p)})

\* As MayDeleteRegion, with the ownership test left out.
MayDeleteRegionAnyone(region, c) == TRUE

\* region.user_id != current_user.id and not current_user.is_superuser is false
MayDeleteRegion(region, c) ==
    ~(region.user_id # CurrentUser(c).id /\ ~CurrentUser(c).is_superuser)

endpoint_delete_saved_region(c, region_id) ==
    LET d == delete_saved_region(region_id) IN
    /\ UNCHANGED <<firebase, sessions, inflight, users, zones, incidents, alerts, now>>
    /\ scan' = NoScan
    /\ IF get_current_user(c) # 200
       THEN /\ resp' = Reply("delete_saved_region", c, region_id,
                             get_current_user(c), {})
            /\ regions' = regions
       ELSE IF ById(regions, region_id) = {}
       THEN /\ resp' = Reply("delete_saved_region", c, region_id, 404, {})
            /\ regions' = regions
       ELSE IF \E r \in ById(regions, region_id) : ~MayDeleteRegion(r, c)
       THEN /\ resp' = Reply("delete_saved_region", c, region_id, 403, {})
            /\ regions' = regions
       ELSE /\ regions' = d.regions
            /\ resp' = Reply("delete_saved_region", c, region_id,
                             IF d.ok THEN 200 ELSE 500, {})

(***************************************************************************)
(* app/api/api_v1/endpoints/alerts.py                                      *)
(***************************************************************************)
\* As OwnAlert, without the filter on user_id.
OwnAlertAny(c, alert_id) == ById(alerts, alert_id)

\* query(Alert).filter(Alert.id == alert_id, Alert.user_id == current_user.id)
OwnAlert(c, alert_id) == {a \in ById(alerts, alert_id) : a.user_id = CurrentUser(c).id}

delete_alert(c, alert_id) ==
    /\ UNCHANGED <<firebase, sessions, inflight, users, zones, incidents, regions, now>>
    /\ scan' = NoScan
    /\ IF get_current_user(c) # 200
       THEN /\ resp' = Reply("delete_alert", c, alert_id, get_current_user(c), {})
            /\ alerts' = alerts
       ELSE IF OwnAlert(c, alert_id) = {}
       THEN /\ resp' = Reply("delete_alert", c, alert_id, 404, {})
            /\ alerts' = alerts
       ELSE /\ alerts' = alerts \ OwnAlert(c, alert_id)
            /\ resp' = Reply("delete_alert", c, alert_id, 200, {})

\* schemas.Alert, the response model: user_id, risk_zone_id, risk_level and
\* message are required, the three flags are Optional.
Alert(a) == a.user_id # NULL /\ a.risk_zone_id # NULL /\ a.risk_level # NULL

\* read_alerts: the query before ordering.  is_read is {} for None and {b}
\* for the boolean b.
AlertQuery(c, is_read) ==
    {a \in alerts : /\ a.user_id = CurrentUser(c).id
                    /\ is_read # {} => /\ a.is_read \in is_read
                                          /\ "is_read" \notin a.nulls}

\* order_by(Alert.alert_time.desc()): alerts of equal alert_time in any order
AlertTimeDescOrders(S) ==
    {s \in [1 .. Cardinality(S) -> S] :
        /\ \A i, j \in 1 .. Cardinality(S) : i # j => s[i] # s[j]
        /\ \A i, j \in 1 .. Cardinality(S) :
              i < j => s[i].alert_time >= s[j].alert_time}

read_alerts(c, skip, limit, is_read) ==
    LET req == [skip |-> skip, limit |-> limit, is_read |-> is_read] IN
    /\ UNCHANGED <<firebase, sessions, inflight, users, zones, incidents, regions, alerts, now>>
    /\ scan' = NoScan
    /\ IF get_current_user(c) # 200
       THEN resp' = Reply("read_alerts", c, req, get_current_user(c), <<>>)
       ELSE \E s \in AlertTimeDescOrders(AlertQuery(c, is_read)) :
               LET page == OffsetLimit(s, skip, limit) IN
               IF \A k \in 1 .. Len(page) : Alert(page[k])
               THEN resp' = Reply("read_alerts", c, req, 200, page)
               ELSE resp' = Reply("read_alerts", c, req, 500, <<>>)

read_alert(c, alert_id) ==
    /\ UNCHANGED <<firebase, sessions, inflight, users, zones, incidents, regions, alerts, now>>
    /\ scan' = NoScan
    /\ resp' = Reply("read_alert", c, alert_id,
                     IF get_current_user(c) # 200 THEN get_current_user(c)
                     ELSE IF OwnAlert(c, alert_id) = {} THEN 404
                     ELSE Returned(\A a \in OwnAlert(c, alert_id) : Alert(a)),
                     IF get_current_user(c) # 200 THEN {}
                     ELSE {a \in OwnAlert(c, alert_id) : Alert(a)})

\* setattr(alert, field, value) for a flag: p[field] is {} when the key is
\* absent and {b} when the boolean b is supplied; p.nulls holds the keys that
\* are supplied as null.
SetFlag(stored, p, field) ==
    IF field \in p.nulls THEN FALSE
    ELSE IF p[field] = {} THEN stored
    ELSE CHOOSE b \in p[field] : TRUE

\* As ApplyAlertUpdate, stamping the alert with the time of the update.
ApplyAlertUpdate_touch(a, p) ==
    [a EXCEPT
       !.is_read = SetFlag(@, p, "is_read"),
       !.is_sent_email = SetFlag(@, p, "is_sent_email"),
       !.is_sent_sms = SetFlag(@, p, "is_sent_sms"),
       !.nulls = (@ \ {f \in AlertFlags : p[f] # {}}) \cup p.nulls,
       !.alert_time = now]

\* alert_in.dict(exclude_unset=True), setattr of each key.  AlertUpdate has
\* the three flags only (any other key of the body is ignored), each of
\* them Optional[bool]: an explicit null is stored.
ApplyAlertUpdate(a, p) ==
    [a EXCEPT
       !.is_read = SetFlag(@, p, "is_read"),
       !.is_sent_email = SetFlag(@, p, "is_sent_email"),
       !.is_sent_sms = SetFlag(@, p, "is_sent_sms"),
       !.nulls = (@ \ {f \in AlertFlags : p[f] # {}}) \cup p.nulls]

update_alert(c, alert_id, p) ==
    LET req == [alert_id |-> alert_id, body |-> p]
        found == OwnAlert(c, alert_id) IN
    /\ UNCHANGED <<firebase, sessions, inflight, users, zones, incidents, regions, now>>
    /\ scan' = NoScan
    /\ IF get_current_user(c) # 200
       THEN /\ resp' = Reply("update_alert", c, req, get_current_user(c), {})
            /\ alerts' = alerts
       ELSE IF found = {}
       THEN /\ resp' = Reply("update_alert", c, req, 404, {})
            /\ alerts' = alerts
       ELSE /\ alerts' = (alerts \ found) \cup {ApplyAlertUpdate(a, p) : a \in found}
            /\ resp' = Reply("update_alert", c, req,
                             Returned(\A a \in found : Alert(a)),
                             {ApplyAlertUpdate(a, p) : a \in found})

\* query(Alert).filter(user_id == current_user.id, is_read == False)
\*    .update({"is_read": True}); the comparison is not true of a NULL
mark_all_alerts_read(c) ==
    /\ UNCHANGED <<firebase, sessions, inflight, users, zones, incidents, regions, now>>
    /\ scan' = NoScan
    /\ IF get_current_user(c) # 200
       THEN /\ resp' = Reply("mark_all_alerts_read", c, {}, get_current_user(c), {})
            /\ alerts' = alerts
       ELSE /\ alerts' = {IF /\ a.user_id = CurrentUser(c).id
                              /\ a.is_read = FALSE
                              /\ "is_read" \notin a.nulls
                          THEN [a EXCEPT !.is_read = TRUE] ELSE a : a \in alerts}
            /\ resp' = Reply("mark_all_alerts_read", c, {}, 200, {})

(***************************************************************************)
(* Users: app/api/api_v1/endpoints/users.py, app/services/user_service.py. *)
(* Modelled fields of a body: email, username, alert_threshold (password   *)
(* is supplied).  email and username are unique columns.                   *)
(***************************************************************************)
\* UserCreate(**body): email and username are required, alert_threshold is
\* validated when supplied and not None
UserCreate(p) ==
    /\ p.email \notin {UnsetStr, NullStr}
    /\ p.username \notin {UnsetStr, NullStr}
    /\ \/ p.alert_threshold \in {UNSET, NULL}
       \/ ~(p.alert_threshold < 0 \/ p.alert_threshold > RiskOne)

get_user_by_email(email) == {u \in users : u.email = email}

get_user_by_username(username) == {u \in users : u.username = username}

\* models.User(...) of user_service.create_user
NewUser(p) ==
    [id |-> NewId(users), is_active |-> TRUE, is_superuser |-> FALSE,
     alert_threshold |-> IF p.alert_threshold = UNSET THEN DefaultThreshold
                         ELSE p.alert_threshold,
     email |-> p.email, username |-> p.username]

\* The unique indexes on users.email and users.username: the commit of the
\* row u raises IntegrityError (NULL equals nothing).
UniqueViolation(u) ==
    \E v \in users :
       /\ v.id # u.id
       /\ \/ u.email # NullStr /\ v.email = u.email
          \/ u.username # NullStr /\ v.username = u.username

\* user_service.create_user: None (ok FALSE) when the email or the username
\* is taken or when the commit fails; every exception is caught
user_service_create_user(p) ==
    IF get_user_by_email(p.email) # {} \/ get_user_by_username(p.username) # {}
       \/ UniqueViolation(NewUser(p))
    THEN [ok |-> FALSE, users |-> users]
    ELSE [ok |-> TRUE, users |-> users \cup {NewUser(p)}]

\* POST /users/ served without any other request in between.  No
\* authentication is required.
create_user(p) ==
    LET d == user_service_create_user(p) IN
    /\ UNCHANGED <<firebase, sessions, inflight, zones, incidents, regions, alerts, now>>
    /\ scan' = NoScan
    /\ IF ~UserCreate(p)
       THEN /\ resp' = Reply("create_user", 0, p, 422, {})
            /\ users' = users
       ELSE IF get_user_by_email(p.email) # {}
       THEN /\ resp' = Reply("create_user", 0, p, 400, {})
            /\ users' = users
       ELSE IF get_user_by_username(p.username) # {}
       THEN /\ resp' = Reply("create_user", 0, p, 400, {})
            /\ users' = users
       ELSE /\ NewId(users) <= MaxUserId
            /\ users' = d.users
            /\ resp' = Reply("create_user", 0, p, IF d.ok THEN 201 ELSE 500,
                             IF d.ok THEN {NewUser(p)} ELSE {})

\* POST /users/ served by a thread of the pool, up to and including the
\* endpoint's checks of email and username.
begin_create_user(p) ==
    /\ UserCreate(p)
    /\ get_user_by_email(p.email) = {}
    /\ get_user_by_username(p.username) = {}
    /\ Cardinality(inflight) < MaxInflight
    /\ inflight' = inflight \cup {[op |-> "create_user", caller |-> 0, body |-> p]}
    /\ UNCHANGED <<firebase, sessions, users, zones, incidents, regions, alerts, now, resp, scan>>

\* The call of user_service.create_user and the return: the service looks
\* the email and the username up again and commits.
finish_create_user ==
    \E r \in inflight :
       LET d == user_service_create_user(r.body) IN
       /\ r.op = "create_user"
       /\ inflight' = inflight \ {r}
       /\ UNCHANGED <<firebase, sessions, zones, incidents, regions, alerts, now>>
       /\ scan' = NoScan
       /\ d.ok => NewId(users) <= MaxUserId
       /\ users' = d.users
       /\ resp' = Reply("create_user", 0, r.body, IF d.ok THEN 201 ELSE 500,
                        IF d.ok THEN {NewUser(r.body)} ELSE {})

\* user_service.update_user: user_in.dict(exclude_unset=True), setattr of
\* every key, commit; a failing commit is rolled back and None returned.
\* UserUpdate inherits is_active and is_superuser from UserBase; a flag of p
\* is {} when absent and {b} when the boolean b is supplied.
ApplyUserUpdate(u, p) ==
    [u EXCEPT !.email = IF p.email = UnsetStr THEN @ ELSE p.email,
              !.username = IF p.username = UnsetStr THEN @ ELSE p.username,
              !.is_active = IF p.is_active = {} THEN @
                            ELSE CHOOSE b \in p.is_active : TRUE,
              !.is_superuser = IF p.is_superuser = {} THEN @
                               ELSE CHOOSE b \in p.is_superuser : TRUE]

update_user_me(c, p) ==
    /\ UNCHANGED <<firebase, sessions, inflight, zones, incidents, regions, alerts, now>>
    /\ scan' = NoScan
    /\ IF get_current_user(c) # 200
       THEN /\ resp' = Reply("update_user_me", c, p, get_current_user(c), {})
            /\ users' = users
       ELSE LET u == ApplyUserUpdate(CurrentUser(c), p) IN
            IF UniqueViolation(u)
            THEN /\ resp' = Reply("update_user_me", c, p, 500, {})
                 /\ users' = users
            ELSE /\ users' = (users \ {CurrentUser(c)}) \cup {u}
                 /\ resp' = Reply("update_user_me", c, p, 200, {u})

(***************************************************************************)
(* Routing of GET requests below /fire-risk/zones.  A path is the tuple of *)
(* its segments after the prefix; the router tries its routes in the order *)
(* of their declaration and takes the first whose path pattern matches.    *)
(***************************************************************************)
GetRoutes ==
    <<[path |-> <<"zones">>, endpoint |-> "read_fire_risk_zones"],
      [path |-> <<"zones", "{zone_id}">>, endpoint |-> "read_fire_risk_zone"],
      [path |-> <<"zones", "by-coordinates">>,
       endpoint |-> "read_fire_risk_zone_by_coords"]>>

\* a path parameter matches any one segment
RouteMatches(route, path) ==
    /\ Len(route.path) = Len(path)
    /\ \A k \in 1 .. Len(path) :
          route.path[k] = "{zone_id}" \/ route.path[k] = path[k]

MatchingRoutes(path) == {k \in 1 .. Len(GetRoutes) : RouteMatches(GetRoutes[k], path)}

Dispatch(path) ==
    IF MatchingRoutes(path) = {} THEN "none"
    ELSE GetRoutes[CHOOSE k \in MatchingRoutes(path) :
                      \A j \in MatchingRoutes(path) : k <= j].endpoint

\* zone_id: int of the path: the integer a segment spells, NULL when the
\* segment is not a decimal numeral (request validation then fails)
PathInt(seg) ==
    LET numerals == <<"1", "2", "3", "4", "5", "6", "7", "8", "9">> IN
    IF \E k \in 1 .. Len(numerals) : numerals[k] = seg
    THEN CHOOSE k \in 1 .. Len(numerals) : numerals[k] = seg
    ELSE NULL

\* GET /fire-risk/<path>?latitude=..&longitude=.. with the caller's token.
\* The dependencies of the chosen endpoint are resolved first, then its
\* parameters are validated (422), then it is called.
http_get(c, path, latitude, longitude) ==
    LET req == [path |-> path, latitude |-> latitude, longitude |-> longitude]
        Answer(status) ==
            /\ UNCHANGED <<firebase, sessions, inflight, users, zones, incidents, regions,
                           alerts, now>>
            /\ scan' = NoScan
            /\ resp' = Reply("http_get", c, req, status, {})
    IN
    IF Dispatch(path) = "none" THEN Answer(404)
    ELSE IF get_current_user(c) # 200 THEN Answer(get_current_user(c))
    ELSE IF Dispatch(path) = "read_fire_risk_zones"
    THEN read_fire_risk_zones(c, 0, 100, NoFilter)
    ELSE IF Dispatch(path) = "read_fire_risk_zone"
    THEN IF PathInt(path[2]) = NULL THEN Answer(422)
         ELSE read_fire_risk_zone(c, PathInt(path[2]))
    ELSE read_fire_risk_zone_by_coords(c, latitude, longitude, DefaultTolerance)

(***************************************************************************)
(* POST /predictions/fire-risk/zones served by a thread of the pool: the   *)
(* lookup of a recent zone, and later the creation of the zone and of the  *)
(* alert.  Nothing is locked in between and no unique index covers the     *)
(* coordinates.                                                            *)
(***************************************************************************)
begin_predict_fire_risk_zone(c, latitude, longitude, risk_level) ==
    /\ get_current_user(c) = 200
    /\ \A z \in get_fire_risk_zone_by_coords(latitude, longitude, DefaultTolerance) :
          ~(z.timestamp > now - Hour)
    /\ Cardinality(inflight) < MaxInflight
    /\ inflight' = inflight \cup {[op |-> "predict_fire_risk_zone", caller |-> c,
                                   latitude |-> latitude, longitude |-> longitude,
                                   risk_level |-> risk_level]}
    /\ UNCHANGED <<firebase, sessions, users, zones, incidents, regions, alerts, now, resp, scan>>

finish_predict_fire_risk_zone ==
    \E r \in inflight :
       LET body == PredictedBody(r.latitude, r.longitude, r.risk_level)
           decision == AlertDecision(CurrentUser(r.caller).alert_threshold, r.risk_level)
       IN
       /\ r.op = "predict_fire_risk_zone"
       /\ inflight' = inflight \ {r}
       /\ UNCHANGED <<firebase, sessions, users, incidents, regions, now>>
       /\ scan' = NoScan
       /\ NewId(zones) <= MaxZoneId
       /\ zones' = create_fire_risk_zone(body)
       /\ IF decision
          THEN /\ NewId(alerts) <= MaxAlertId
               /\ alerts' = create_alert_for_user(r.caller, NewZone(body).id, r.risk_level)
          ELSE alerts' = alerts
       /\ resp' = Reply("predict_fire_risk_zone", r.caller,
                        [latitude |-> r.latitude, longitude |-> r.longitude], 200,
                        [zone |-> NewZone(body), created |-> TRUE,
                         decision |-> decision])

(***************************************************************************)
(* PUT /zones/{zone_id} served by a thread of the pool.  The session loads *)
(* the row in the endpoint's get_fire_risk_zone; the service finds the     *)
(* same object in the session's identity map, sets the supplied fields on  *)
(* it and commits.  The UPDATE the session emits sets the columns whose    *)
(* new value differs from the loaded one, and no other column.             *)
(***************************************************************************)
\* The row after the UPDATE of a session that loaded `loaded` and applied
\* the body p, when the row is `stored` at the time of the commit.
FlushZoneUpdate(stored, loaded, p) ==
    LET new == ApplyZoneUpdate(loaded, p) IN
    [stored EXCEPT
       !.region_name = IF new.region_name # loaded.region_name
                       THEN new.region_name ELSE @,
       !.latitude = IF new.latitude # loaded.latitude THEN new.latitude ELSE @,
       !.longitude = IF new.longitude # loaded.longitude THEN new.longitude ELSE @,
       !.risk_level = IF new.risk_level # loaded.risk_level THEN new.risk_level ELSE @,
       !.risk_category = IF new.risk_category # loaded.risk_category
                         THEN new.risk_category ELSE @]

\* The handler up to and including the endpoint's get_fire_risk_zone.
begin_update_fire_risk_zone(c, zone_id, p) ==
    /\ get_current_active_superuser(c) = 200
    /\ FireRiskZoneUpdate(p)
    /\ get_fire_risk_zone(zone_id) # {}
    /\ Cardinality(inflight) < MaxInflight
    /\ \E z \in get_fire_risk_zone(zone_id) :
          inflight' = inflight \cup {[op |-> "update_fire_risk_zone", caller |-> c,
                                      zone_id |-> zone_id, body |-> p, loaded |-> z]}
    /\ UNCHANGED <<firebase, sessions, users, zones, incidents, regions, alerts, now, resp, scan>>

\* The call of the service, its commit and refresh, and the return.  The
\* UPDATE of a row that was deleted meanwhile matches no row
\* (StaleDataError).
finish_update_fire_risk_zone ==
    \E r \in inflight :
       LET req == [zone_id |-> r.zone_id, body |-> r.body] IN
       /\ r.op = "update_fire_risk_zone"
       /\ inflight' = inflight \ {r}
       /\ UNCHANGED <<firebase, sessions, users, incidents, regions, alerts, now>>
       /\ scan' = NoScan
       /\ IF get_fire_risk_zone(r.zone_id) = {}
          THEN /\ zones' = zones
               /\ resp' = Reply("update_fire_risk_zone", r.caller, req, 500, {})
          ELSE \E z \in get_fire_risk_zone(r.zone_id) :
               /\ zones' = (zones \ {z}) \cup {FlushZoneUpdate(z, r.loaded, r.body)}
               /\ resp' = Reply("update_fire_risk_zone", r.caller, req,
                                Returned(FireRiskZone(FlushZoneUpdate(z, r.loaded, r.body))),
                                {FlushZoneUpdate(z, r.loaded, r.body)})

(***************************************************************************)
(* app/api/deps.py, get_db: the session of a request.  sessions holds, for *)
(* every request that arrived, the position of its get_db generator        *)
(* (phase) and the state of the session bound to db (session).             *)
(***************************************************************************)
GetDb(req, phase, session) == [req |-> req, phase |-> phase, session |-> session]

\* As get_db_finally, closing the session only when the handler returned.
get_db_without_finally(session, raised) ==
    IF session = "open" /\ ~raised THEN "closed" ELSE session

\* finally: db.close().  A session that was opened is closed; when
\* SessionLocal() raised, db is unbound and db.close() raises
\* UnboundLocalError in place of the first exception.
get_db_finally(session, raised) ==
    IF session = "open" THEN "closed" ELSE session

\* A request arrives and FastAPI calls the dependency get_db.
request_arrives ==
    /\ Cardinality(sessions) < MaxRequests
    /\ sessions' = sessions \cup {GetDb(Cardinality(sessions) + 1, "try", "unbound")}
    /\ UNCHANGED <<firebase, inflight, users, zones, incidents, regions, alerts, now, resp, scan>>

\* db = SessionLocal(); yield db.  raises: SessionLocal() raised.
get_db(raises) ==
    \E r \in sessions :
       /\ r.phase = "try"
       /\ UNCHANGED <<firebase, inflight, users, zones, incidents, regions, alerts, now, scan>>
       /\ IF raises
          THEN /\ sessions' = (sessions \ {r})
                                \cup {GetDb(r.req, "ended", get_db_finally("unbound", TRUE))}
               /\ resp' = Reply("get_db", 0, r.req, 500, {})
          ELSE /\ sessions' = (sessions \ {r}) \cup {GetDb(r.req, "yielded", "open")}
               /\ resp' = resp

\* The handler, with its other dependencies, returns or raises; the
\* generator is resumed and its finally clause runs.
request_ends(raised) ==
    \E r \in sessions :
       /\ r.phase = "yielded"
       /\ UNCHANGED <<firebase, inflight, users, zones, incidents, regions, alerts, now, scan>>
       /\ sessions' = (sessions \ {r})
                        \cup {GetDb(r.req, "ended", get_db_finally(r.session, raised))}
       /\ resp' = Reply("request_ends", 0, r.req, IF raised THEN 500 ELSE 200, {})

(***************************************************************************)
(* Service functions called while the database fails.  `at` names the      *)
(* statement that raises SQLAlchemyError: the commit (nothing is stored)   *)
(* or the refresh that follows it (the row is stored).  out.raised tells   *)
(* whether the exception reaches the caller, out.rolled_back whether the   *)
(* function called db.rollback().                                          *)
(***************************************************************************)
StorageFailurePoints == {"commit", "refresh"}

ServiceOutcome(raised, rolled_back) ==
    [raised |-> raised, rolled_back |-> rolled_back]

\* user_service.create_user: except SQLAlchemyError: db.rollback(); return None
failing_create_user(p, at) ==
    /\ UserCreate(p)
    /\ get_user_by_email(p.email) = {}
    /\ get_user_by_username(p.username) = {}
    /\ UNCHANGED <<firebase, sessions, inflight, zones, incidents, regions, alerts, now>>
    /\ scan' = NoScan
    /\ IF at = "refresh"
       THEN /\ NewId(users) <= MaxUserId
            /\ users' = users \cup {NewUser(p)}
       ELSE users' = users
    /\ resp' = Reply("failing_create_user", 0, [body |-> p, at |-> at], 200,
                     ServiceOutcome(FALSE, TRUE))

\* user_service.update_user: except SQLAlchemyError: db.rollback(); return None
failing_update_user(user_id, p, at) ==
    /\ ById(users, user_id) # {}
    /\ UNCHANGED <<firebase, sessions, inflight, zones, incidents, regions, alerts, now>>
    /\ scan' = NoScan
    /\ users' = IF at = "refresh" /\ ~UniqueViolation(ApplyUserUpdate(CurrentUser(user_id), p))
                THEN (users \ ById(users, user_id))
                        \cup {ApplyUserUpdate(CurrentUser(user_id), p)}
                ELSE users
    /\ resp' = Reply("failing_update_user", user_id, [body |-> p, at |-> at], 200,
                     ServiceOutcome(FALSE, TRUE))

\* fire_risk_service.create_fire_risk_zone has no except clause: the
\* exception leaves the function, and the session is released by get_db
failing_create_fire_risk_zone(p, at) ==
    /\ FireRiskZoneCreate(p)
    /\ UNCHANGED <<firebase, sessions, inflight, users, incidents, regions, alerts, now>>
    /\ scan' = NoScan
    /\ IF at = "refresh"
       THEN /\ NewId(zones) <= MaxZoneId
            /\ zones' = create_fire_risk_zone(p)
       ELSE zones' = zones
    /\ resp' = Reply("failing_create_fire_risk_zone", 0, [body |-> p, at |-> at],
                     500, ServiceOutcome(TRUE, FALSE))

(***************************************************************************)
(* Ingestion jobs: scripts/import_historical_fire_data.py and              *)
(* scripts/realtime_fire_data.py.  They write rows through the ORM, not    *)
(* through the schemas.  A run of the historical import is modelled with   *)
(* a batch of one row, a run of the real-time job step by step.            *)
(***************************************************************************)
\* download_usfs_data: FIRE_SIZE_CLASS to severity
size_class_to_severity(c) ==
    IF c \in {"A", "B"} THEN "Low"
    ELSE IF c \in {"C", "D", "E"} THEN "Medium" ELSE "High"

\* download_nasa_firms_data / fetch_nasa_firms_data: confidence to severity
confidence_to_severity(c) ==
    IF c = "low" THEN "Low" ELSE IF c = "nominal" THEN "Medium" ELSE "High"

\* process_and_import_data: the entry of combined_incidents for a USFS row
usfs_incident(size_class, discovery_date, cont_date, latitude, longitude) ==
    [latitude |-> latitude, longitude |-> longitude,
     start_date |-> discovery_date, end_date |-> cont_date,
     severity |-> size_class_to_severity(size_class),
     status |-> "Extinguished", source |-> "USFS",
     description |-> <<"Fire", "in">>]

\* process_and_import_data: the entry of combined_incidents for a FIRMS row;
\* status by recency of acq_date
firms_incident(confidence, acq_date, recent, latitude, longitude) ==
    [latitude |-> latitude, longitude |-> longitude,
     start_date |-> acq_date, end_date |-> NULL,
     severity |-> confidence_to_severity(confidence),
     status |-> IF recent THEN "Active" ELSE "Contained",
     source |-> "NASA FIRMS",
     description |-> <<"Fire", "detected">>]

\* process_and_import_data: risk level of the zone generated for an incident
historical_risk_level(severity) ==
    IF severity = "High" THEN 9 ELSE IF severity = "Medium" THEN 6
    ELSE IF severity = "Low" THEN 3 ELSE 5

IngestedZone(region_name, latitude, longitude, risk_level, risk_category) ==
    NewZone([region_name |-> region_name, latitude |-> latitude,
             longitude |-> longitude, risk_level |-> risk_level,
             risk_category |-> risk_category])

IngestedIncident(risk_zone_id, d) ==
    [id |-> NewId(incidents), risk_zone_id |-> risk_zone_id,
     latitude |-> d.latitude, longitude |-> d.longitude,
     start_date |-> d.start_date, end_date |-> d.end_date,
     severity |-> d.severity, status |-> d.status, source |-> d.source,
     description |-> d.description]

\* process_and_import_data for one entry d of combined_incidents: the zone at
\* exactly these coordinates is looked up (first()) or created, then the
\* incident is added; one commit.
process_and_import_data(d) ==
    LET at == {z \in zones : z.latitude = d.latitude /\ z.longitude = d.longitude}
        made == IngestedZone(<<"r">>, d.latitude, d.longitude,
                             historical_risk_level(d.severity), d.severity)
    IN
    /\ UNCHANGED <<firebase, sessions, inflight, users, regions, alerts, now>>
    /\ scan' = NoScan
    /\ NewId(incidents) <= MaxIncidentId
    /\ IF at = {}
       THEN /\ NewId(zones) <= MaxZoneId
            /\ zones' = zones \cup {made}
            /\ incidents' = incidents \cup {IngestedIncident(made.id, d)}
            /\ resp' = Reply("process_and_import_data", 0, d, 200,
                             {IngestedIncident(made.id, d)})
       ELSE \E z \in at :
            /\ zones' = zones
            /\ incidents' = incidents \cup {IngestedIncident(z.id, d)}
            /\ resp' = Reply("process_and_import_data", 0, d, 200,
                             {IngestedIncident(z.id, d)})

\* fetch_nifc_data: severity by CalculatedAcres
nifc_severity(acres) ==
    IF acres > 1000 THEN "High" ELSE IF acres > 100 THEN "Medium" ELSE "Low"

\* fetch_nifc_data: status by PercentContained
nifc_status(pct) ==
    IF pct = 100 THEN "Contained" ELSE IF pct > 75 THEN "Controlled" ELSE "Active"

\* update_database: the incident written for a FIRMS row
realtime_firms_incident(row) ==
    [latitude |-> row.latitude, longitude |-> row.longitude,
     start_date |-> row.acq_date, end_date |-> NULL,
     severity |-> confidence_to_severity(row.confidence),
     status |-> "Active",
     source |-> "NASA FIRMS Realtime",
     description |-> <<"Fire", "hotspot", "detected">>]

\* update_database: the incident written for a NIFC row
nifc_incident(row) ==
    [latitude |-> row.Latitude, longitude |-> row.Longitude,
     start_date |-> row.FireDiscoveryDateTime, end_date |-> NULL,
     severity |-> nifc_severity(row.CalculatedAcres),
     status |-> nifc_status(row.PercentContained),
     source |-> "NIFC Realtime",
     description |-> row.IncidentName \o <<"-">>]

\* FireIncident.description.like(f"%{name}%"): the name occurs in the
\* description; never true of a NULL description
Like(description, name) ==
    /\ description # NullName
    /\ \E k \in 0 .. Len(description) - Len(name) :
          SubSeq(description, k + 1, k + Len(name)) = name

\* One run of update_database(firms_df, nifc_df) is the record r of inflight:
\* the fetched rows, the number pos of rows processed, the rows added to the
\* session and flushed (zones, incidents, alerts: visible to the queries of
\* the run, not stored before the commit), the lists collected for Firebase,
\* and whether session.commit() has returned.
Fetched(r) == [firms_df |-> r.firms_df, nifc_df |-> r.nifc_df]

RunRows(r) == Len(r.firms_df) + Len(r.nifc_df)

\* session = Session(); incidents_data = []; risk_zones_data = []
begin_update_database(firms_df, nifc_df) ==
    /\ inflight = {}
    /\ inflight' = {[op |-> "update_database", firms_df |-> firms_df,
                     nifc_df |-> nifc_df, pos |-> 0,
                     zones |-> {}, incidents |-> {}, alerts |-> {},
                     incidents_data |-> {}, risk_zones_data |-> {},
                     committed |-> FALSE]}
    /\ UNCHANGED <<firebase, sessions, users, zones, incidents, regions, alerts, now,
                   resp, scan>>

\* session.query(FireIncident).filter(...).first() for the next row: the
\* query sees the stored rows and the rows this session has flushed
existing_incident(r, firms, row) ==
    {i \in incidents \cup r.incidents :
        IF firms
        THEN /\ i.latitude = row.latitude
             /\ i.longitude = row.longitude
             /\ i.start_date = row.acq_date
        ELSE /\ i.latitude = row.Latitude
             /\ i.longitude = row.Longitude
             /\ Like(i.description, row.IncidentName)}

\* the entry appended to risk_zones_data
risk_zone_data(z, source) ==
    [id |-> z.id, region_name |-> z.region_name, latitude |-> z.latitude,
     longitude |-> z.longitude, risk_level |-> z.risk_level,
     risk_category |-> z.risk_category, timestamp |-> now, source |-> source]

\* the entry appended to incidents_data
incident_data(i) ==
    [id |-> i.id, latitude |-> i.latitude, longitude |-> i.longitude,
     start_date |-> i.start_date, severity |-> i.severity, status |-> i.status,
     source |-> i.source, description |-> i.description]

\* The body of one of the two loops for the next row.  risk_level is the
\* value of calculate_risk_level for the weather fetched.  A row with an
\* existing incident is skipped; otherwise a zone and an incident are added
\* and flushed, and an alert for user 1 is added for a FIRMS row of severity
\* High and for a NIFC row of more than 1000 acres.
update_database_row(risk_level) ==
    \E r \in inflight :
       /\ r.op = "update_database"
       /\ ~r.committed
       /\ r.pos < RunRows(r)
       /\ LET firms == r.pos < Len(r.firms_df)
              row == IF firms THEN r.firms_df[r.pos + 1]
                     ELSE r.nifc_df[r.pos + 1 - Len(r.firms_df)]
              d == IF firms THEN realtime_firms_incident(row) ELSE nifc_incident(row)
              risk_zone ==
                  [IngestedZone(IF firms THEN <<"Hotspot">>
                                ELSE row.IncidentName \o <<"(">>,
                                d.latitude, d.longitude, risk_level, d.severity)
                     EXCEPT !.id = NewId(zones \cup r.zones)]
              incident ==
                  [IngestedIncident(risk_zone.id, d)
                     EXCEPT !.id = NewId(incidents \cup r.incidents)]
              alert ==
                  [NewAlert(1, risk_zone.id, risk_level)
                     EXCEPT !.id = NewId(alerts \cup r.alerts),
                            !.message = IF firms THEN "High risk fire detected"
                                        ELSE "Major fire"]
              alerted == IF firms THEN d.severity = "High"
                         ELSE row.CalculatedAcres > 1000
          IN
          IF existing_incident(r, firms, row) # {}
          THEN inflight' = (inflight \ {r}) \cup {[r EXCEPT !.pos = @ + 1]}
          ELSE /\ risk_zone.id <= MaxZoneId
               /\ incident.id <= MaxIncidentId
               /\ alerted => alert.id <= MaxAlertId
               /\ inflight' = (inflight \ {r}) \cup
                    {[r EXCEPT
                        !.pos = @ + 1,
                        !.zones = @ \cup {risk_zone},
                        !.incidents = @ \cup {incident},
                        !.alerts = IF alerted THEN @ \cup {alert} ELSE @,
                        !.risk_zones_data =
                            @ \cup {risk_zone_data(risk_zone,
                                                   IF firms THEN "NASA FIRMS" ELSE "NIFC")},
                        !.incidents_data = @ \cup {incident_data(incident)}]}
       /\ UNCHANGED <<firebase, sessions, users, zones, incidents, regions, alerts, now,
                      resp, scan>>

\* As session_rollback, keeping the rows the session has flushed.
session_rollback_flushed(r) ==
    [zones |-> zones \cup r.zones, incidents |-> incidents \cup r.incidents,
     alerts |-> alerts \cup r.alerts]

\* session.rollback(): the tables after the flushed rows are discarded
session_rollback(r) ==
    [zones |-> zones, incidents |-> incidents, alerts |-> alerts]

\* except Exception: session.rollback(); finally: session.close().  An
\* exception can be raised by any statement of the try block before the
\* commit has returned (a query, a flush, a weather fetch, the commit).
update_database_except ==
    \E r \in inflight :
       /\ r.op = "update_database"
       /\ ~r.committed
       /\ zones' = session_rollback(r).zones
       /\ incidents' = session_rollback(r).incidents
       /\ alerts' = session_rollback(r).alerts
       /\ inflight' = inflight \ {r}
       /\ resp' = Reply("update_database", 0, Fetched(r), 500, {})
       /\ scan' = NoScan
       /\ UNCHANGED <<firebase, sessions, users, regions, now>>

\* session.commit() after both loops.  The run goes on to Firebase when
\* incidents_data and risk_zones_data are both non-empty.
update_database_commit ==
    \E r \in inflight :
       /\ r.op = "update_database"
       /\ ~r.committed
       /\ r.pos = RunRows(r)
       /\ zones' = zones \cup r.zones
       /\ incidents' = incidents \cup r.incidents
       /\ alerts' = alerts \cup r.alerts
       /\ inflight' = IF r.incidents_data # {} /\ r.risk_zones_data # {}
                      THEN (inflight \ {r}) \cup {[r EXCEPT !.committed = TRUE]}
                      ELSE inflight \ {r}
       /\ resp' = Reply("update_database", 0, Fetched(r), 200, r.incidents)
       /\ scan' = NoScan
       /\ UNCHANGED <<firebase, sessions, users, regions, now>>

\* ref.update(data): the children of the keys of data are replaced
ref_update(children, data) == {x \in children : x.id \notin Ids(data)} \cup data

\* firebase_service.update_fire_data(incidents_data, risk_zones_data), which
\* ends the run.  written is 0 when Firebase is not initialized or the first
\* update raises, 1 when the update of risk_zones raises, 2 when both
\* updates succeed.
update_fire_data(written) ==
    \E r \in inflight :
       /\ r.op = "update_database"
       /\ r.committed
       /\ firebase' =
            [fire_incidents |-> IF written >= 1
                                THEN ref_update(firebase.fire_incidents, r.incidents_data)
                                ELSE firebase.fire_incidents,
             risk_zones |-> IF written >= 2
                            THEN ref_update(firebase.risk_zones, r.risk_zones_data)
                            ELSE firebase.risk_zones]
       /\ inflight' = inflight \ {r}
       /\ UNCHANGED <<sessions, users, zones, incidents, regions, alerts, now, resp,
                      scan>>

(***************************************************************************)
(* Direct calls of the service functions (the function-call contract of    *)
(* the service layer, as used by the endpoints and by the scripts).        *)
(***************************************************************************)
call_get_fire_risk_zone_by_coords(latitude, longitude, tolerance) ==
    LET req == [latitude |-> latitude, longitude |-> longitude,
                tolerance |-> tolerance]
        found == get_fire_risk_zone_by_coords(latitude, longitude, tolerance) IN
    /\ UNCHANGED <<firebase, sessions, inflight, users, zones, incidents, regions, alerts, now>>
    /\ scan' = NoScan
    /\ IF found = {}
       THEN resp' = Reply("get_fire_risk_zone_by_coords", 0, req, 200, {})
       ELSE \E z \in found :
               resp' = Reply("get_fire_risk_zone_by_coords", 0, req, 200, {z})

call_delete_fire_risk_zone(zone_id) ==
    LET d == delete_fire_risk_zone(zone_id) IN
    /\ UNCHANGED <<firebase, sessions, inflight, users, regions, now>>
    /\ scan' = NoScan
    /\ zones' = d.zones
    /\ incidents' = d.incidents
    /\ alerts' = d.alerts
    /\ resp' = Reply("svc_delete_fire_risk_zone", 0, zone_id, 200, d.ok)

call_delete_saved_region(region_id) ==
    LET d == delete_saved_region(region_id) IN
    /\ UNCHANGED <<firebase, sessions, inflight, users, zones, incidents, alerts, now>>
    /\ scan' = NoScan
    /\ regions' = d.regions
    /\ resp' = Reply("svc_delete_saved_region", 0, region_id, 200, d.ok)

call_get_fire_incidents(skip, limit, f) ==
    /\ UNCHANGED <<firebase, sessions, inflight, users, zones, incidents, regions, alerts, now>>
    /\ scan' = NoScan
    /\ \E page \in get_fire_incidents(skip, limit, f) :
          resp' = Reply("get_fire_incidents", 0,
                        [skip |-> skip, limit |-> limit, f |-> f], 200, page)

\* Time passes.
Tick ==
    /\ now < MaxTime
    /\ now' = now + 1
    /\ resp' = Reply("tick", 0, 0, 200, {})
    /\ UNCHANGED <<firebase, sessions, inflight, users, zones, incidents, regions, alerts, scan>>


(***************************************************************************)
(* Initial states.  scripts/init_db.py creates the tables and the admin    *)
(* user; further users are those POST /users/ and PUT /users/me leave.     *)
(***************************************************************************)
\* email and username of the users stored at the start
SeedEmail(id) ==
    IF id = 1 THEN "admin@forestfire.com"
    ELSE IF id = 2 THEN "b@example.org" ELSE "c@example.org"

SeedUsername(id) == IF id = 1 THEN "admin" ELSE IF id = 2 THEN "b" ELSE "c"

AdminUser ==
    [id |-> 1, is_active |-> TRUE, is_superuser |-> TRUE,
     alert_threshold |-> DefaultThreshold,
     email |-> SeedEmail(1), username |-> SeedUsername(1)]

PlainUser(id, active, threshold) ==
    [id |-> id, is_active |-> active, is_superuser |-> FALSE,
     alert_threshold |-> threshold,
     email |-> SeedEmail(id), username |-> SeedUsername(id)]

InitWith(U) ==
    /\ users = U
    /\ zones = {}
    /\ incidents = {}
    /\ regions = {}
    /\ alerts = {}
    /\ now = 0
    /\ resp = Reply("init", 0, 0, 200, {})
    /\ scan = NoScan
    /\ inflight = {}
    /\ sessions = {}
    /\ firebase = [fire_incidents |-> {}, risk_zones |-> {}]

(***************************************************************************)
(* SpecValidate: zone create / update / delete with request bodies whose   *)
(* risk_level and risk_category range over valid, invalid, null and absent *)
(* values.                                                                 *)
(***************************************************************************)
ValidateRiskLevels == {UNSET, NULL, -1, 0, RiskOne, RiskOne + 1}
ValidateCategories == {UnsetStr, NullStr, "Low", "High", "Extreme"}

ValidateCreateBodies ==
    {[region_name |-> <<"a">>, latitude |-> 0, longitude |-> 0,
      risk_level |-> r, risk_category |-> k] :
        r \in ValidateRiskLevels, k \in ValidateCategories}

ValidateUpdateBodies ==
    {[region_name |-> UnsetName, latitude |-> UNSET, longitude |-> UNSET,
      risk_level |-> r, risk_category |-> k] :
        r \in ValidateRiskLevels, k \in ValidateCategories}

InitValidate == InitWith({AdminUser, PlainUser(2, TRUE, DefaultThreshold)})

NextValidate ==
    \/ \E c \in {1, 2}, p \in ValidateCreateBodies : endpoint_create_fire_risk_zone(c, p)
    \/ \E id \in 1 .. MaxZoneId, p \in ValidateUpdateBodies :
          endpoint_update_fire_risk_zone(1, id, p)
    \/ \E id \in 1 .. MaxZoneId : endpoint_delete_fire_risk_zone(1, id)

SpecValidate == InitValidate /\ [][NextValidate]_vars

\* C1: a zone-creation request whose risk_level is a number outside [0,1] or
\* whose risk_category is not one of Low, Medium, High is not served with
\* success and adds no zone; from a caller who passes the superuser check it
\* is answered with the validation error 422.
C1_OutsideUnitInterval(v) == v \notin {UNSET, NULL} /\ (v < 0 \/ v > RiskOne)

C1_BadBody(p) ==
    \/ C1_OutsideUnitInterval(p.risk_level)
    \/ p.risk_category \notin {"Low", "Medium", "High"}

CoordBody(la, lo) ==
    [region_name |-> <<"a">>, latitude |-> la, longitude |-> lo,
     risk_level |-> 5, risk_category |-> "Medium"]

CoordUpdate(la) ==
    [region_name |-> UnsetName, latitude |-> la, longitude |-> UNSET,
     risk_level |-> UNSET, risk_category |-> UnsetStr]

CoordQueries == {<<1, 1>>, <<0, 0>>}

InitCoords == InitWith({AdminUser})

NextCoords ==
    \/ \E la \in {0, 2}, lo \in {0, 2} :
          endpoint_create_fire_risk_zone(1, CoordBody(la, lo))
    \/ \E id \in 1 .. MaxZoneId :
          endpoint_update_fire_risk_zone(1, id, CoordUpdate(NULL))
    \/ \E q \in CoordQueries, tol \in {0, DefaultTolerance} :
          call_get_fire_risk_zone_by_coords(q[1], q[2], tol)
    \/ Tick

SpecCoords == InitCoords /\ [][NextCoords]_vars

\* C3: get_fire_risk_zone_by_coords(lat, lon, tol) returns a zone if and only
\* if some stored zone has lat - tol <= latitude <= lat + tol and
\* lon - tol <= longitude <= lon + tol; the zone returned is such a zone and
\* no such zone has a later timestamp; otherwise None is returned.
C3_InBox(z, q) ==
    /\ z.latitude # NULL
    /\ z.longitude # NULL
    /\ q.latitude - q.tolerance <= z.latitude
    /\ z.latitude <= q.latitude + q.tolerance
    /\ q.longitude - q.tolerance <= z.longitude
    /\ z.longitude <= q.longitude + q.tolerance

C3_FindByCoordinates ==
    resp.op = "get_fire_risk_zone_by_coords" =>
        /\ (resp.out # {}) <=> (\E z \in zones : C3_InBox(z, resp.req))
        /\ \A r \in resp.out :
              /\ r \in zones
              /\ C3_InBox(r, resp.req)
              /\ \A z \in zones : C3_InBox(z, resp.req) => z.timestamp <= r.timestamp
        /\ Cardinality(resp.out) <= 1

\* Two zones lie on the border of the box, one older than the other, and
\* the later one is returned.
C3_Witness ==
    /\ resp.op = "get_fire_risk_zone_by_coords"
    /\ resp.req.tolerance = DefaultTolerance
    /\ \E r \in resp.out : \E z \in zones :
          /\ z # r
          /\ C3_InBox(z, resp.req)
          /\ z.timestamp < r.timestamp
          /\ r.latitude = resp.req.latitude + resp.req.tolerance


(***************************************************************************)
(* SpecList: zones of two risk levels, two region names and two            *)
(* categories, listed through GET /zones with the filters alone and        *)
(* combined, page by page.                                                 *)
(***************************************************************************)
ListBodies ==
    {[region_name |-> nk[1], latitude |-> 0, longitude |-> 0,
      risk_level |-> r, risk_category |-> nk[2]] :
        r \in {3, 7}, nk \in {<<<<"A", "b">>, "High">>, <<<<"b">>, "Low">>}}

Filter(lo, hi, n, k) ==
    [min_risk_level |-> lo, max_risk_level |-> hi, region_name |-> n,
     risk_category |-> k]

ListFilters ==
    {NoFilter,
     Filter(7, NULL, NullName, NullStr),
     Filter(NULL, 3, NullName, NullStr),
     Filter(NULL, NULL, <<"a">>, NullStr),
     Filter(NULL, NULL, <<>>, "High"),
     Filter(3, 7, <<"B">>, "Low")}

InitList == InitWith({AdminUser})

NextList ==
    \/ \E p \in ListBodies : endpoint_create_fire_risk_zone(1, p)
    \/ \E id \in 1 .. MaxZoneId : endpoint_delete_fire_risk_zone(1, id)
    \/ \E skip \in 0 .. MaxZoneId, limit \in 1 .. 2, f \in ListFilters :
          read_fire_risk_zones(1, skip, limit, f)

SpecList == InitList /\ [][NextList]_vars

\* The zones that satisfy every filter given in f: risk_level within the
\* inclusive bounds, region_name containing the substring without regard to
\* case, risk_category equal.
C4_Satisfying(f) ==
    {z \in zones :
        /\ f.min_risk_level # NULL => z.risk_level >= f.min_risk_level
        /\ f.max_risk_level # NULL => z.risk_level <= f.max_risk_level
        /\ f.region_name \notin {NullName, <<>>}
              => ILikeContains(z.region_name, f.region_name)
        /\ f.risk_category \notin {NullStr, ""} => z.risk_category = f.risk_category}

\* page can be rows skip+1 .. skip+limit of a risk_level-descending order of S
C4_IsSlice(page, S, skip, limit) ==
    /\ \A i \in 1 .. Len(page) : page[i] \in S
    /\ \A i, j \in 1 .. Len(page) : i # j => page[i] # page[j]
    /\ \A i, j \in 1 .. Len(page) : i < j => page[i].risk_level >= page[j].risk_level
    /\ Len(page) = Min2(Cardinality(S), skip + limit) - Min2(Cardinality(S), skip)
    /\ \A i \in 1 .. Len(page) :
          /\ Cardinality({z \in S : z.risk_level > page[i].risk_level}) <= skip + i - 1
          /\ Cardinality({z \in S : z.risk_level >= page[i].risk_level}) >= skip + i

C4_PageIsSlice ==
    (resp.op = "read_fire_risk_zones" /\ resp.status = 200) =>
        C4_IsSlice(resp.out, C4_Satisfying(resp.req.f), resp.req.skip, resp.req.limit)

C4_ExactlyOnce(seen, S) ==
    /\ \A i \in 1 .. Len(seen) : seen[i] \in S
    /\ \A z \in S : Cardinality({i \in 1 .. Len(seen) : seen[i] = z}) = 1

\* C4 as claimed: every page is the slice [skip, skip+limit) of the
\* risk_level-descending list of the zones satisfying the filters, and the
\* consecutive pages fetched over an unchanged store, up to the first page
\* shorter than limit, hold every matching zone exactly once.
C4_PagesCoverOnce ==
    /\ C4_PageIsSlice
    /\ (scan.active /\ scan.done) => C4_ExactlyOnce(scan.seen, C4_Satisfying(scan.f))

\* C4 as amended: every page is the slice [skip, skip+limit) of a
\* risk_level-descending order of exactly the zones satisfying the filters;
\* zones of equal risk_level are ordered anew by every request, and the
\* consecutive pages over an unchanged store hold every matching zone
\* exactly once when the matching zones have pairwise different risk_level.
C4_DistinctRisk(S) == \A y, z \in S : y # z => y.risk_level # z.risk_level

C4_PagesCoverOnceIfDistinct ==
    /\ C4_PageIsSlice
    /\ (scan.active /\ scan.done /\ C4_DistinctRisk(C4_Satisfying(scan.f)))
          => C4_ExactlyOnce(scan.seen, C4_Satisfying(scan.f))

C4_Witness ==
    /\ scan.active
    /\ scan.done
    /\ scan.limit = 1
    /\ scan.f = Filter(NULL, NULL, <<"a">>, NullStr)
    /\ Len(scan.seen) = 2
    /\ scan.seen[1].risk_level > scan.seen[2].risk_level
    /\ resp.op = "read_fire_risk_zones"
    /\ resp.req.skip = 2


(***************************************************************************)
(* SpecAlert: prediction requests of a user whose alert_threshold is 0,    *)
(* 0.7, 1.0 or null, and direct zone creation and deletion by the admin    *)
(* (threshold 0.7).                                                        *)
(***************************************************************************)
AlertThresholds == {NULL, 0, DefaultThreshold, RiskOne}
AlertRiskLevels == {0, DefaultThreshold, RiskOne}

InitAlert ==
    \E t \in AlertThresholds : InitWith({AdminUser, PlainUser(2, TRUE, t)})

NextAlert ==
    \/ \E la \in {0, 3}, r \in AlertRiskLevels :
          predict_fire_risk_zone(2, la, 0, r)
    \/ \E r \in {5, 8} :
          endpoint_create_fire_risk_zone(1, PredictedBody(3, 0, r))
    \/ \E id \in 1 .. MaxZoneId : endpoint_delete_fire_risk_zone(1, id)

SpecAlert == InitAlert /\ [][NextAlert]_vars

\* C5: the alert decision taken for a zone newly created by the prediction
\* endpoint is true if and only if risk_level >= threshold, for every
\* risk_level and threshold in [0,1], risk_level = threshold and
\* threshold = 0 included.
C5_DecisionIffAtLeastThreshold ==
    (/\ resp.op = "predict_fire_risk_zone"
     /\ resp.status = 200
     /\ resp.out.created
     /\ CurrentUser(resp.caller).alert_threshold \in 0 .. RiskOne
     /\ resp.out.zone.risk_level \in 0 .. RiskOne)
        => (resp.out.decision
              <=> resp.out.zone.risk_level >= CurrentUser(resp.caller).alert_threshold)

\* The alerts of user u for zone id z
C6_AlertsFor(A, u, z) == {a \in A : a.user_id = u /\ a.risk_zone_id = z}

\* alerts' is alerts plus exactly one unread, unsent alert of user u for zone z
C6_OneAlertAdded(u, z) ==
    /\ Cardinality(alerts' \ alerts) = 1
    /\ alerts \subseteq alerts'
    /\ \A a \in alerts' \ alerts :
          /\ a.user_id = u
          /\ a.risk_zone_id = z.id
          /\ a.risk_level = z.risk_level
          /\ ~a.is_read /\ ~a.is_sent_email /\ ~a.is_sent_sms
    /\ Cardinality(C6_AlertsFor(alerts', u, z.id)) = 1

\* C6 as claimed: the prediction endpoint and the direct zone-creation
\* endpoint both follow the creation of a zone by the creation of exactly
\* one alert when the alert decision (for the direct endpoint: the same
\* condition on the caller's threshold and the zone's risk_level) is true,
\* and create no alert when it is false.
C6_EveryCreationAlerts ==
    [][/\ (resp'.op = "predict_fire_risk_zone" /\ resp'.status = 200
             /\ resp'.out.created)
          => IF resp'.out.decision
             THEN C6_OneAlertAdded(resp'.caller, resp'.out.zone)
             ELSE alerts' = alerts
       /\ (resp'.op = "create_fire_risk_zone" /\ resp'.status = 200)
          => \A z \in resp'.out :
                IF AlertDecision(CurrentUser(resp'.caller).alert_threshold,
                                 z.risk_level)
                THEN C6_OneAlertAdded(resp'.caller, z)
                ELSE alerts' = alerts]_vars

\* C6 as amended: a zone created by the prediction endpoint is followed,
\* before the request returns, by exactly one new alert for the caller and
\* that zone (unread, unsent, with the zone's risk_level) when the
\* endpoint's alert decision is true, and by none when it is false; the
\* direct zone-creation endpoint never creates an alert.
C6_PredictionCreationAlerts ==
    [][/\ (resp'.op = "predict_fire_risk_zone" /\ resp'.status = 200
             /\ resp'.out.created)
          => IF resp'.out.decision
             THEN C6_OneAlertAdded(resp'.caller, resp'.out.zone)
             ELSE alerts' = alerts
       /\ (resp'.op = "predict_fire_risk_zone" /\ resp'.status = 200
             /\ ~resp'.out.created)
          => alerts' = alerts
       /\ resp'.op = "create_fire_risk_zone" => alerts' = alerts]_vars

C6_Witness ==
    /\ resp.op = "predict_fire_risk_zone"
    /\ resp.status = 200
    /\ resp.out.created
    /\ resp.out.decision
    /\ resp.out.zone.risk_level = CurrentUser(resp.caller).alert_threshold
    /\ Cardinality(C6_AlertsFor(alerts, resp.caller, resp.out.zone.id)) = 1
    /\ Cardinality(alerts) = 2

(***************************************************************************)
(* Deleting: the four delete endpoints and the two delete service          *)
(* functions that report a missing row, on tables filled by the prediction *)
(* endpoint, the incident creation endpoint and the saved-region endpoint. *)
(***************************************************************************)
IncidentBody(risk_zone_id, status) ==
    [risk_zone_id |-> risk_zone_id, latitude |-> 0, longitude |-> 0,
     start_date |-> 0, end_date |-> UNSET,
     severity |-> "High", status |-> status, source |-> "Official"]

RegionBody(user_id, alert_threshold) ==
    [user_id |-> user_id, alert_threshold |-> alert_threshold]

Callers == {1, 2}

InitDelete == InitWith({AdminUser, PlainUser(2, TRUE, DefaultThreshold)})

NextDelete ==
    \/ predict_fire_risk_zone(2, 0, 0, RiskOne)
    \/ endpoint_create_fire_incident(1, IncidentBody(1, "Active"))
    \/ create_saved_region(2, RegionBody(2, UNSET))
    \/ \E c \in Callers, id \in 1 .. MaxZoneId :
          endpoint_delete_fire_risk_zone(c, id)
    \/ \E c \in Callers, id \in 1 .. MaxIncidentId : delete_fire_incident(c, id)
    \/ \E c \in Callers, id \in 1 .. MaxRegionId :
          endpoint_delete_saved_region(c, id)
    \/ \E c \in Callers, id \in 1 .. MaxAlertId : delete_alert(c, id)
    \/ \E id \in 1 .. MaxZoneId : call_delete_fire_risk_zone(id)
    \/ \E id \in 1 .. MaxRegionId : call_delete_saved_region(id)

SpecDelete == InitDelete /\ [][NextDelete]_vars

C7_StorageUnchanged ==
    UNCHANGED <<users, zones, incidents, regions, alerts>>

\* the endpoint answers 404 to a caller who passes its dependency, and never
\* answers 200
C7_NotFound(dep) ==
    /\ resp'.status # 200
    /\ dep = 200 => resp'.status = 404
    /\ C7_StorageUnchanged

\* C7: deleting a zone, an incident, a saved region or an alert whose id is
\* not in storage yields not-found (False from the service function, 404
\* from the endpoint), never a success, and leaves storage unchanged.
C7_DeleteMissingIsNotFound ==
    [][/\ (resp'.op = "delete_fire_risk_zone" /\ resp'.req \notin Ids(zones))
          => C7_NotFound(get_current_active_superuser(resp'.caller))
       /\ (resp'.op = "delete_fire_incident" /\ resp'.req \notin Ids(incidents))
          => C7_NotFound(get_current_active_superuser(resp'.caller))
       /\ (resp'.op = "delete_saved_region" /\ resp'.req \notin Ids(regions))
          => C7_NotFound(get_current_user(resp'.caller))
       /\ (resp'.op = "delete_alert" /\ resp'.req \notin Ids(alerts))
          => C7_NotFound(get_current_user(resp'.caller))
       /\ (resp'.op = "svc_delete_fire_risk_zone" /\ resp'.req \notin Ids(zones))
          => (resp'.out = FALSE /\ C7_StorageUnchanged)
       /\ (resp'.op = "svc_delete_saved_region" /\ resp'.req \notin Ids(regions))
          => (resp'.out = FALSE /\ C7_StorageUnchanged)]_vars

C7_Witness ==
    /\ resp.op = "svc_delete_saved_region"
    /\ resp.req \notin Ids(regions)
    /\ resp.out = FALSE
    /\ zones # {} /\ incidents # {} /\ regions # {} /\ alerts # {}

(***************************************************************************)
(* Privileges: every zone and incident endpoint and the prediction         *)
(* endpoint, called by the superuser and by a plain active user.           *)
(***************************************************************************)
AuthZoneBody == PredictedBody(3, 0, 8)

AuthZoneUpdate ==
    [region_name |-> NullName, latitude |-> UNSET, longitude |-> UNSET,
     risk_level |-> UNSET, risk_category |-> UnsetStr]

AuthIncidentUpdate ==
    [risk_zone_id |-> UNSET, latitude |-> UNSET, longitude |-> UNSET,
     start_date |-> UNSET, end_date |-> 1,
     severity |-> UnsetStr, status |-> "Contained", source |-> UnsetStr]

InitAuth == InitWith({AdminUser, PlainUser(2, TRUE, NULL)})

NextAuth ==
    \/ \E c \in Callers : endpoint_create_fire_risk_zone(c, AuthZoneBody)
    \/ \E c \in Callers : endpoint_update_fire_risk_zone(c, 1, AuthZoneUpdate)
    \/ \E c \in Callers, id \in 1 .. MaxZoneId :
          endpoint_delete_fire_risk_zone(c, id)
    \/ \E c \in Callers :
          endpoint_create_fire_incident(c, IncidentBody(1, "Active"))
    \/ \E c \in Callers : update_fire_incident(c, 1, AuthIncidentUpdate)
    \/ \E c \in Callers, id \in 1 .. MaxIncidentId : delete_fire_incident(c, id)
    \/ predict_fire_risk_zone(2, 0, 0, 5)
    \/ \E c \in Callers : read_fire_risk_zones(c, 0, 1, NoFilter)
    \/ \E c \in Callers : read_fire_risk_zone(c, 1)
    \/ \E c \in Callers : read_fire_risk_zone_by_coords(c, 0, 0, DefaultTolerance)
    \/ \E c \in Callers : read_fire_incidents(c, 0, 100, NoIncidentFilter)
    \/ \E c \in Callers : read_fire_incident(c, 1)

SpecAuth == InitAuth /\ [][NextAuth]_vars

C8_CrudOps ==
    {"create_fire_risk_zone", "update_fire_risk_zone", "delete_fire_risk_zone",
     "create_fire_incident", "update_fire_incident", "delete_fire_incident"}

C8_ReadOps ==
    {"read_fire_risk_zones", "read_fire_risk_zone", "read_fire_risk_zone_by_coords",
     "read_fire_incidents", "read_fire_incident"}

C8_PlainActive(c) ==
    /\ get_current_user(c) = 200
    /\ ~CurrentUser(c).is_superuser

\* a stored row with a null in a field that the response schema requires
C8_NullInZone(z) ==
    z.region_name = NullName \/ z.latitude = NULL \/ z.longitude = NULL

C8_NullInIncident(i) ==
    i.risk_zone_id = NULL \/ i.latitude = NULL \/ i.longitude = NULL
    \/ i.start_date = NULL

\* a read succeeds: 200, or 404 when the single row asked for is not there
C8_ReadSucceeds == resp'.status \in {200, 404}

\* a read is never refused for lack of privilege: it answers 200, or 404
\* when the single row asked for is not there, or 500 when a row it has to
\* return cannot be serialised
C8_ReadServed ==
    /\ resp'.status \in {200, 404, 500}
    /\ resp'.op = "read_fire_risk_zones"
          => (resp'.status = 500 => \E z \in zones : C8_NullInZone(z))
    /\ resp'.op = "read_fire_incidents"
          => (resp'.status = 500 <=> \E i \in incidents : C8_NullInIncident(i))
    /\ resp'.op = "read_fire_risk_zone"
          => /\ resp'.status = 404 <=> resp'.req \notin Ids(zones)
             /\ resp'.status = 500
                   <=> \E z \in ById(zones, resp'.req) : C8_NullInZone(z)
    /\ resp'.op = "read_fire_risk_zone_by_coords"
          => (resp'.status = 500 => \E z \in zones : C8_NullInZone(z))
    /\ resp'.op = "read_fire_incident"
          => /\ resp'.status = 404 <=> resp'.req \notin Ids(incidents)
             /\ resp'.status = 500
                   <=> \E i \in ById(incidents, resp'.req) : C8_NullInIncident(i)

RegionCallers == {1, 2, 3}

RegionThresholds == {UNSET, NULL, RiskOne + 1}

InitRegion ==
    InitWith({AdminUser, PlainUser(2, TRUE, DefaultThreshold),
              PlainUser(3, TRUE, DefaultThreshold)})

NextRegion ==
    \/ \E c \in RegionCallers, u \in RegionCallers, t \in RegionThresholds :
          create_saved_region(c, RegionBody(u, t))
    \/ \E c \in RegionCallers, id \in 1 .. MaxRegionId :
          endpoint_delete_saved_region(c, id)
    \/ \E id \in 1 .. MaxRegionId : call_delete_saved_region(id)

SpecRegion == InitRegion /\ [][NextRegion]_vars

\* C9: deleting a saved region that exists but is not owned by the caller,
\* the caller not being a superuser, fails with an authorization failure
\* (403) and leaves the region stored; the owner or a superuser removes
\* exactly that region.
C9_DeleteSavedRegionAuthorization ==
    [][(/\ resp'.op = "delete_saved_region"
        /\ get_current_user(resp'.caller) = 200
        /\ resp'.req \in Ids(regions))
          => \A r \in ById(regions, resp'.req) :
                IF r.user_id # resp'.caller /\ ~CurrentUser(resp'.caller).is_superuser
                THEN resp'.status = 403 /\ regions' = regions
                ELSE resp'.status = 200 /\ regions' = regions \ {r}
                     /\ Cardinality(regions') = Cardinality(regions) - 1]_vars

C9_Witness ==
    /\ resp.op = "delete_saved_region"
    /\ resp.status = 403
    /\ resp.caller = 3
    /\ \E r \in ById(regions, resp.req) : r.user_id = 2
    /\ Cardinality(regions) = 2

\* C10: creating a saved region whose payload user_id differs from the
\* caller's id is rejected (HTTP 400) and stores nothing; every saved
\* region created through the endpoint is owned by the caller who created
\* it.
C10_CreateForOtherUserRejected ==
    [][/\ (/\ resp'.op = "create_saved_region"
           /\ get_current_user(resp'.caller) = 200
           /\ resp'.req.user_id # resp'.caller)
          => /\ resp'.status \in {400, 422}
             /\ SavedRegionCreate(resp'.req) => resp'.status = 400
             /\ regions' = regions
       /\ (resp'.op = "create_saved_region" /\ regions' # regions)
          => /\ resp'.status = 200
             /\ regions \subseteq regions'
             /\ Cardinality(regions' \ regions) = 1
             /\ \A r \in regions' \ regions :
                   r.user_id = resp'.caller /\ r.id \notin Ids(regions)
             /\ resp'.out = regions' \ regions]_vars

C10_Witness ==
    /\ resp.op = "create_saved_region"
    /\ resp.status = 400
    /\ resp.caller = 2
    /\ resp.req.user_id = 3
    /\ \E r \in regions : r.user_id = 2

(***************************************************************************)
(* Incidents and their zones: zones created and deleted, incidents         *)
(* created for stored and for missing zones, moved to another zone by      *)
(* updates, and deleted.  Every request is served from start to end        *)
(* before the next one starts.                                             *)
(***************************************************************************)
IncidentRezone(risk_zone_id) ==
    [risk_zone_id |-> risk_zone_id, latitude |-> UNSET, longitude |-> UNSET,
     start_date |-> UNSET, end_date |-> UNSET,
     severity |-> UnsetStr, status |-> UnsetStr, source |-> UnsetStr]

IncidentZoneBody == PredictedBody(3, 0, 8)

InitIncident == InitWith({AdminUser, PlainUser(2, TRUE, DefaultThreshold)})

NextIncident ==
    \/ endpoint_create_fire_risk_zone(1, IncidentZoneBody)
    \/ \E id \in 1 .. MaxZoneId : endpoint_delete_fire_risk_zone(1, id)
    \/ \E id \in 1 .. MaxZoneId : call_delete_fire_risk_zone(id)
    \/ \E c \in Callers, z \in 1 .. MaxZoneId, st \in {"Active", "Burning"} :
          endpoint_create_fire_incident(c, IncidentBody(z, st))
    \/ \E id \in 1 .. MaxIncidentId, z \in {NULL} \cup 1 .. MaxZoneId :
          update_fire_incident(1, id, IncidentRezone(z))
    \/ \E id \in 1 .. MaxIncidentId : delete_fire_incident(1, id)

SpecIncident == InitIncident /\ [][NextIncident]_vars

\* C11: a request to create an incident whose risk_zone_id does not
\* identify a stored zone is not served with success and stores no
\* incident; from a superuser with a valid body it is answered 404.
C11_CreateForMissingZoneNotFound ==
    [][(/\ resp'.op = "create_fire_incident"
        /\ resp'.req.risk_zone_id \notin Ids(zones))
          => /\ resp'.status # 200
             /\ incidents' = incidents
             /\ (get_current_active_superuser(resp'.caller) = 200
                   /\ FireIncidentCreate(resp'.req)) => resp'.status = 404]_vars

C11_Witness ==
    /\ resp.op = "create_fire_incident"
    /\ resp.status = 404
    /\ resp.req.risk_zone_id = 1
    /\ Ids(zones) = {2}
    /\ incidents # {}

\* C13: deleting a zone removes exactly that zone and deletes no incident:
\* the set of stored incident ids is the same before and after, and an
\* incident differs at most in its risk_zone_id.
C13_ZoneDeleteKeepsIncidents ==
    [][(\/ resp'.op = "delete_fire_risk_zone" /\ resp'.status = 200
        \/ resp'.op = "svc_delete_fire_risk_zone" /\ resp'.out = TRUE)
          => /\ resp'.req \in Ids(zones)
             /\ zones' = zones \ ById(zones, resp'.req)
             /\ Cardinality(zones') = Cardinality(zones) - 1
             /\ Ids(incidents') = Ids(incidents)
             /\ Cardinality(incidents') = Cardinality(incidents)
             /\ \A i \in incidents : \E j \in incidents' :
                   j = [i EXCEPT !.risk_zone_id = j.risk_zone_id]]_vars

C13_Witness ==
    /\ resp.op = "delete_fire_risk_zone"
    /\ resp.status = 200
    /\ resp.req = 1
    /\ Ids(zones) = {2}
    /\ Cardinality(incidents) = 2
    /\ \E i \in incidents : i.risk_zone_id = NULL
    /\ \E i \in incidents : i.risk_zone_id = 2

(***************************************************************************)
(* As SpecIncident, with incident creations that overlap other requests.   *)
(***************************************************************************)
NextRace ==
    \/ endpoint_create_fire_risk_zone(1, IncidentZoneBody)
    \/ \E id \in 1 .. MaxZoneId : endpoint_delete_fire_risk_zone(1, id)
    \/ \E z \in 1 .. MaxZoneId :
          endpoint_create_fire_incident(1, IncidentBody(z, "Active"))
    \/ \E z \in 1 .. MaxZoneId :
          begin_create_fire_incident(1, IncidentBody(z, "Active"))
    \/ finish_create_fire_incident
    \/ \E id \in 1 .. MaxIncidentId, z \in {NULL} \cup 1 .. MaxZoneId :
          update_fire_incident(1, id, IncidentRezone(z))
    \/ \E id \in 1 .. MaxIncidentId : delete_fire_incident(1, id)

SpecRace == InitIncident /\ [][NextRace]_vars

\* C12: after any sequence of zone and incident create, update and delete
\* operations, an incident creation overlapping the deletion of its zone
\* included, every stored incident has a risk_zone_id that identifies a
\* stored zone.
C12_IncidentZoneStored ==
    \A i \in incidents : i.risk_zone_id \in Ids(zones)

\* the same for the incidents whose risk_zone_id is not null
C12_NoDanglingZoneId ==
    \A i \in incidents : i.risk_zone_id = NULL \/ i.risk_zone_id \in Ids(zones)

(***************************************************************************)
(* Incidents written by the API and by the ingestion jobs, with valid and  *)
(* invalid enumeration values and with end dates before and after the      *)
(* start date.                                                             *)
(***************************************************************************)
IngestBody(end_date, severity, source) ==
    [risk_zone_id |-> 1, latitude |-> 0, longitude |-> 0,
     start_date |-> 1, end_date |-> end_date,
     severity |-> severity, status |-> "Active", source |-> source]

IngestUpdate(end_date, status) ==
    [risk_zone_id |-> UNSET, latitude |-> UNSET, longitude |-> UNSET,
     start_date |-> UNSET, end_date |-> end_date,
     severity |-> UnsetStr, status |-> status, source |-> UnsetStr]

NifcRows ==
    {[IncidentName |-> <<"CA", "Ridge", "Fire">>,
      Latitude |-> 3000, Longitude |-> -7000, FireDiscoveryDateTime |-> 1,
      CalculatedAcres |-> a, PercentContained |-> pct] :
        a \in {2000}, pct \in {80, 100}}

HistoricalEntries ==
    {usfs_incident("G", 1, 0, 3000, -7000),
     firms_incident("nominal", 1, TRUE, 3000, -7000)}

InitIngest == InitWith({AdminUser})

\* incidents written by the API only
NextIngestApi ==
    \/ endpoint_create_fire_risk_zone(1, IncidentZoneBody)
    \/ \E e \in {UNSET, 0}, sev \in {"High", "Severe"} :
          endpoint_create_fire_incident(1, IngestBody(e, sev, "Official"))
    \/ endpoint_create_fire_incident(1, IngestBody(UNSET, "High", "USFS"))
    \/ \E id \in 1 .. MaxIncidentId, st \in {NullStr, "Contained", "Controlled"} :
          update_fire_incident(1, id, IngestUpdate(UNSET, st))
    \/ \E id \in 1 .. MaxIncidentId :
          update_fire_incident(1, id, IngestUpdate(0, UnsetStr))

SpecIngestApi == InitIngest /\ [][NextIngestApi]_vars

\* the jobs run while no request is served, so that the ids a run has
\* flushed are not given to another transaction
NextIngest ==
    \/ inflight = {} /\ NextIngestApi
    \/ inflight = {} /\ \E d \in HistoricalEntries : process_and_import_data(d)
    \/ \E row \in NifcRows : begin_update_database(<<>>, <<row>>)
    \/ update_database_row(5)
    \/ update_database_except
    \/ update_database_commit
    \/ update_fire_data(0)

SpecIngest == InitIngest /\ [][NextIngest]_vars

\* C14: after any sequence of incident creations and updates, through the
\* API or through the ingestion jobs, every stored incident has severity in
\* {Low, Medium, High}, status in {Active, Contained, Extinguished} and
\* source in the enumerated set of sources.
C14_IncidentEnumerations ==
    \A i \in incidents :
        /\ i.severity \in {"Low", "Medium", "High"}
        /\ i.status \in {"Active", "Contained", "Extinguished"}
        /\ i.source \in {"Satellite", "Ground Report", "Official",
                         "NASA FIRMS Realtime", "NIFC Realtime", "Test Script"}

\* C15: after any sequence of incident create and update operations, every
\* stored incident that has an end_date has end_date >= start_date.
C15_EndNotBeforeStart ==
    \A i \in incidents :
        (i.end_date # NULL /\ i.start_date # NULL) => i.end_date >= i.start_date

(***************************************************************************)
(* The incident list: incidents of two zones with different names, with    *)
(* different start dates, statuses and severities, some orphaned by the    *)
(* deletion of their zone or left without a start date by an update, read  *)
(* through get_fire_incidents with each kind of filter.                    *)
(***************************************************************************)
IncidentListZones ==
    {[region_name |-> n, latitude |-> 0, longitude |-> 0,
      risk_level |-> 5, risk_category |-> "Medium"] : n \in {<<"A", "b">>, <<"b">>}}

IncidentListBody(risk_zone_id, start_date, status, severity) ==
    [risk_zone_id |-> risk_zone_id, latitude |-> 0, longitude |-> 0,
     start_date |-> start_date, end_date |-> UNSET,
     severity |-> severity, status |-> status, source |-> "Official"]

IncidentListUpdate ==
    [risk_zone_id |-> UNSET, latitude |-> UNSET, longitude |-> UNSET,
     start_date |-> NULL, end_date |-> UNSET,
     severity |-> UnsetStr, status |-> UnsetStr, source |-> UnsetStr]

IncidentFilter(n, from, to, st, sev) ==
    [region_name |-> n, start_date_from |-> from, start_date_to |-> to,
     status |-> st, severity |-> sev]

IncidentListFilters ==
    {NoIncidentFilter,
     IncidentFilter(<<"a">>, NULL, NULL, NullStr, NullStr),
     IncidentFilter(<<"B">>, NULL, NULL, "", NullStr),
     IncidentFilter(NullName, 1, NULL, NullStr, NullStr),
     IncidentFilter(<<>>, NULL, 0, "Active", NullStr),
     IncidentFilter(NullName, NULL, NULL, NullStr, "Low")}

NextIncidentList ==
    \/ \E p \in IncidentListZones : endpoint_create_fire_risk_zone(1, p)
    \/ endpoint_delete_fire_risk_zone(1, 1)
    \/ \E b \in {<<1, 0, "Active", "High">>, <<2, 0, "Active", "High">>,
                 <<2, 1, "Contained", "Low">>} :
          endpoint_create_fire_incident(1, IncidentListBody(b[1], b[2], b[3], b[4]))
    \/ update_fire_incident(1, 1, IncidentListUpdate)
    \/ \E sl \in {<<0, 2>>, <<1, 1>>}, f \in IncidentListFilters :
          call_get_fire_incidents(sl[1], sl[2], f)

SpecIncidentList == InitList /\ [][NextIncidentList]_vars

\* The incidents that satisfy every filter given in f.  A region-name filter
\* is satisfied through the owning zone only.
C16_Satisfying(f) ==
    {i \in incidents :
        /\ f.region_name \notin {NullName, <<>>}
              => \E z \in zones : /\ z.id = i.risk_zone_id
                                  /\ ILikeContains(z.region_name, f.region_name)
        /\ f.start_date_from # NULL
              => (i.start_date # NULL /\ i.start_date >= f.start_date_from)
        /\ f.start_date_to # NULL
              => (i.start_date # NULL /\ i.start_date <= f.start_date_to)
        /\ f.status \notin {NullStr, ""} => i.status = f.status
        /\ f.severity \notin {NullStr, ""} => i.severity = f.severity}

\* the listings of S in which no incident comes before one with a later
\* start_date
C16_Orderings(S) ==
    {s \in [1 .. Cardinality(S) -> S] :
        /\ \A z \in S : \E k \in 1 .. Cardinality(S) : s[k] = z
        /\ \A a, b \in 1 .. Cardinality(S) :
              (a < b /\ s[a].start_date # NULL /\ s[b].start_date # NULL)
                 => s[a].start_date >= s[b].start_date}

\* C16: the incident list is the contiguous slice [skip, skip+limit) of a
\* start_date-descending ordering of exactly the incidents that satisfy
\* every given filter (start_date_from and start_date_to inclusive, status
\* and severity by equality); with a region-name filter, an incident
\* without an owning zone whose region name contains the substring is
\* excluded.
C16_IncidentListIsSlice ==
    resp.op = "get_fire_incidents" =>
        \E s \in C16_Orderings(C16_Satisfying(resp.req.f)) :
           /\ Len(resp.out) = Min2(Len(s), resp.req.skip + resp.req.limit)
                                - Min2(Len(s), resp.req.skip)
           /\ \A k \in 1 .. Len(resp.out) : resp.out[k] = s[resp.req.skip + k]

C16_Witness ==
    /\ resp.op = "get_fire_incidents"
    /\ resp.req.f.region_name = <<"B">>
    /\ resp.req.limit = 2
    /\ Len(resp.out) = 1
    /\ Cardinality(incidents) = 2
    /\ \E i \in incidents : i.risk_zone_id = NULL

(***************************************************************************)
(* Partial updates of zones and incidents created at different times, with *)
(* bodies that supply one field, several fields, nulls and invalid values, *)
(* for stored and missing ids, by the superuser and by a plain user.       *)
(***************************************************************************)
ZoneUpdateOf(n, la, r, k) ==
    [region_name |-> n, latitude |-> la, longitude |-> UNSET,
     risk_level |-> r, risk_category |-> k]

ZoneUpdates ==
    {ZoneUpdateOf(<<"c">>, UNSET, UNSET, UnsetStr),
     ZoneUpdateOf(UnsetName, 4, 2, "Low"),
     ZoneUpdateOf(UnsetName, NULL, UNSET, UnsetStr),
     ZoneUpdateOf(UnsetName, UNSET, NULL, UnsetStr)}

IncidentUpdateOf(z, d, e, st) ==
    [risk_zone_id |-> z, latitude |-> UNSET, longitude |-> UNSET,
     start_date |-> d, end_date |-> e,
     severity |-> UnsetStr, status |-> st, source |-> UnsetStr]

IncidentUpdates ==
    {IncidentUpdateOf(2, UNSET, UNSET, UnsetStr),
     IncidentUpdateOf(UNSET, NULL, UNSET, "Contained"),
     IncidentUpdateOf(UNSET, UNSET, UNSET, NullStr)}

InitUpdate == InitWith({AdminUser, PlainUser(2, TRUE, DefaultThreshold)})

\* Two zones and two incidents are created, the zones at different times;
\* record 1 of each table and a missing id are updated.
NextUpdate ==
    \/ Cardinality(zones) < 2 /\ endpoint_create_fire_risk_zone(1, IncidentZoneBody)
    \/ Cardinality(incidents) < 2
          /\ endpoint_create_fire_incident(1, IncidentBody(1, "Active"))
    \/ \E p \in ZoneUpdates : endpoint_update_fire_risk_zone(1, 1, p)
    \/ \E p \in IncidentUpdates : update_fire_incident(1, 1, p)
    \/ endpoint_update_fire_risk_zone(2, 1, ZoneUpdateOf(<<"c">>, UNSET, UNSET, UnsetStr))
    \/ update_fire_incident(2, 1, IncidentUpdateOf(2, UNSET, UNSET, UnsetStr))
    \/ incidents = {} /\ Tick

SpecUpdate == InitUpdate /\ [][NextUpdate]_vars

\* the value of a field after an update that supplies v; an absent field
\* is UNSET (number), UnsetStr (string) or UnsetName (name)
C17_Num(old, v) == IF v = UNSET THEN old ELSE v

C17_Str(old, v) == IF v = UnsetStr THEN old ELSE v

C17_Name(old, v) == IF v = UnsetName THEN old ELSE v

C17_ZoneAfter(z, p) ==
    [id |-> z.id, timestamp |-> z.timestamp,
     region_name |-> C17_Name(z.region_name, p.region_name),
     latitude |-> C17_Num(z.latitude, p.latitude),
     longitude |-> C17_Num(z.longitude, p.longitude),
     risk_level |-> C17_Num(z.risk_level, p.risk_level),
     risk_category |-> C17_Str(z.risk_category, p.risk_category)]

C17_IncidentAfter(i, p) ==
    [id |-> i.id,
     risk_zone_id |-> C17_Num(i.risk_zone_id, p.risk_zone_id),
     latitude |-> C17_Num(i.latitude, p.latitude),
     longitude |-> C17_Num(i.longitude, p.longitude),
     start_date |-> C17_Num(i.start_date, p.start_date),
     end_date |-> C17_Num(i.end_date, p.end_date),
     severity |-> C17_Str(i.severity, p.severity),
     status |-> C17_Str(i.status, p.status),
     source |-> C17_Str(i.source, p.source),
     description |-> i.description]

\* the request was carried out: answered 200, or 500 when the updated row
\* could not be serialised after the commit
C17_Done == resp'.status \in {200, 500}

\* C17: a partial update of a zone or an incident changes exactly the
\* fields supplied in the request to the supplied values and leaves every
\* other field, id and timestamp included, and every other record
\* unchanged; an update of an id that is not stored is answered not-found
\* (for a superuser with a valid body) and changes nothing, as does every
\* rejected update.
C17_PartialUpdate ==
    [][/\ resp'.op = "update_fire_risk_zone" =>
            /\ UNCHANGED <<users, incidents, regions, alerts>>
            /\ IF C17_Done
               THEN \E z \in zones :
                       /\ z.id = resp'.req.zone_id
                       /\ zones' = (zones \ {z}) \cup {C17_ZoneAfter(z, resp'.req.body)}
               ELSE zones' = zones
            /\ resp'.req.zone_id \notin Ids(zones) =>
                  /\ ~C17_Done
                  /\ (get_current_active_superuser(resp'.caller) = 200
                        /\ FireRiskZoneUpdate(resp'.req.body)) => resp'.status = 404
       /\ resp'.op = "update_fire_incident" =>
            /\ UNCHANGED <<users, zones, regions, alerts>>
            /\ IF C17_Done
               THEN \E i \in incidents :
                       /\ i.id = resp'.req.incident_id
                       /\ incidents' = (incidents \ {i})
                                         \cup {C17_IncidentAfter(i, resp'.req.body)}
               ELSE incidents' = incidents
            /\ resp'.req.incident_id \notin Ids(incidents) =>
                  /\ ~C17_Done
                  /\ (get_current_active_superuser(resp'.caller) = 200
                        /\ FireIncidentUpdate(resp'.req.body)) => resp'.status = 404]_vars

C17_Witness ==
    /\ resp.op = "update_fire_risk_zone"
    /\ resp.status = 200
    /\ resp.req.body = ZoneUpdateOf(UnsetName, 4, 2, "Low")
    /\ \E z \in zones :
          /\ z.id = resp.req.zone_id
          /\ z.latitude = 4 /\ z.risk_level = 2 /\ z.longitude = 0
          /\ z.region_name = <<"c">>
          /\ z.timestamp < now
    /\ \E y \in zones : y.id # resp.req.zone_id
    /\ \E i \in incidents : i.start_date = NULL /\ i.status = "Contained"
    /\ \E i \in incidents : i.id # 1

(***************************************************************************)
(* Alerts of two users, created by predictions, then read, updated,        *)
(* marked read and deleted by their owner, by the other user and by the    *)
(* superuser, while the zone they quote is updated or deleted.             *)
(***************************************************************************)
AlertUpdateOf(is_read, is_sent_email, is_sent_sms) ==
    [is_read |-> is_read, is_sent_email |-> is_sent_email,
     is_sent_sms |-> is_sent_sms, nulls |-> {}]

AlertUpdates ==
    {AlertUpdateOf({TRUE}, {}, {}),
     AlertUpdateOf({FALSE}, {TRUE}, {})}

AlertCallers == {2, 3}

InitOwnAlert ==
    InitWith({AdminUser, PlainUser(2, TRUE, DefaultThreshold),
              PlainUser(3, TRUE, DefaultThreshold)})

NextOwnAlert ==
    \/ \E c \in AlertCallers : predict_fire_risk_zone(c, 3, 0, 8)
    \/ endpoint_update_fire_risk_zone(1, 1, ZoneUpdateOf(UnsetName, UNSET, 2, "Low"))
    \/ endpoint_delete_fire_risk_zone(1, 1)
    \/ read_alerts(2, 0, 100, {FALSE})
    \/ \E c \in AlertCallers : read_alert(c, 1)
    \/ \E c \in AlertCallers, id \in 1 .. MaxAlertId :
          update_alert(c, id, AlertUpdateOf({TRUE}, {}, {}))
    \/ \E p \in AlertUpdates : update_alert(2, 1, p)
    \/ update_alert(1, 1, AlertUpdateOf({TRUE}, {}, {}))
    \/ \E c \in AlertCallers : delete_alert(c, 1)
    \/ mark_all_alerts_read(2)
    \/ Cardinality(alerts) = 1 /\ Tick

SpecOwnAlert == InitOwnAlert /\ [][NextOwnAlert]_vars

\* a and b agree on everything but the three flags
C18_SameButFlags(a, b) ==
    /\ a.id = b.id /\ a.user_id = b.user_id /\ a.risk_zone_id = b.risk_zone_id
    /\ a.risk_level = b.risk_level /\ a.message = b.message
    /\ a.alert_time = b.alert_time

\* C18: an alert update changes only is_read, is_sent_email and is_sent_sms
\* of the addressed alert (each to the supplied value, when supplied); its
\* user_id, risk_zone_id, risk_level, message and alert_time are unchanged,
\* as is every other alert and table; marking all alerts read changes
\* is_read only; and an update of the zone leaves every alert, its
\* risk_level included, as it was created.
C18_AlertUpdateFlagsOnly ==
    [][/\ resp'.op = "update_alert" =>
            /\ UNCHANGED <<users, zones, incidents, regions>>
            /\ IF resp'.status \in {200, 500}
               THEN \E a \in alerts, b \in alerts' :
                       /\ a.id = resp'.req.alert_id
                       /\ alerts' = (alerts \ {a}) \cup {b}
                       /\ C18_SameButFlags(a, b)
                       /\ b.is_read \in (IF resp'.req.body.is_read = {}
                                         THEN {a.is_read} ELSE resp'.req.body.is_read)
                       /\ b.is_sent_email \in
                             (IF resp'.req.body.is_sent_email = {}
                              THEN {a.is_sent_email} ELSE resp'.req.body.is_sent_email)
                       /\ b.is_sent_sms \in
                             (IF resp'.req.body.is_sent_sms = {}
                              THEN {a.is_sent_sms} ELSE resp'.req.body.is_sent_sms)
               ELSE alerts' = alerts
       /\ resp'.op = "mark_all_alerts_read" =>
            /\ UNCHANGED <<users, zones, incidents, regions>>
            /\ Ids(alerts') = Ids(alerts)
            /\ \A a \in alerts, b \in alerts' :
                  a.id = b.id => /\ C18_SameButFlags(a, b)
                                 /\ a.is_sent_email = b.is_sent_email
                                 /\ a.is_sent_sms = b.is_sent_sms
       /\ resp'.op = "update_fire_risk_zone" => alerts' = alerts]_vars

C18_Witness ==
    /\ resp.op = "update_alert"
    /\ resp.status = 200
    /\ resp.req.body = AlertUpdateOf({FALSE}, {TRUE}, {})
    /\ \E a \in alerts, z \in zones :
          /\ a.id = resp.req.alert_id
          /\ a.is_sent_email /\ ~a.is_read /\ ~a.is_sent_sms
          /\ a.alert_time < now
          /\ z.id = a.risk_zone_id
          /\ a.risk_level = 8 /\ z.risk_level = 2
    /\ \E a \in alerts : a.id # resp.req.alert_id

\* the caller of the last request is an authenticated active user
C19_Authenticated == get_current_user(resp'.caller) = 200

\* C19: an alert is read, updated or deleted only by requests of the user
\* whose id equals its user_id: a request by any other (authenticated) user
\* addressing it, the superuser included, gets not-found and leaves every
\* alert unchanged; whatever a request changes, removes or returns is owned
\* by its caller; and the alert list of a user holds only alerts owned by
\* that user.
C19_OwnerOnly ==
    [][/\ resp'.op \in {"read_alert", "update_alert", "delete_alert"} =>
            LET id == IF resp'.op = "update_alert" THEN resp'.req.alert_id
                      ELSE resp'.req IN
            \A a \in ById(alerts, id) :
               (C19_Authenticated /\ a.user_id # resp'.caller) =>
                  /\ resp'.status = 404
                  /\ resp'.out = {}
                  /\ alerts' = alerts
       /\ resp'.op \in {"read_alert", "update_alert", "delete_alert",
                        "mark_all_alerts_read"} =>
            \A a \in alerts : a.user_id # resp'.caller => a \in alerts'
       /\ resp'.op \in {"read_alert", "update_alert"} =>
            \A a \in resp'.out : a.user_id = resp'.caller
       /\ resp'.op = "read_alerts" =>
            /\ alerts' = alerts
            /\ \A k \in 1 .. Len(resp'.out) :
                  /\ resp'.out[k] \in alerts
                  /\ resp'.out[k].user_id = resp'.caller]_vars

C19_Witness ==
    /\ resp.op = "update_alert"
    /\ resp.status = 404
    /\ resp.caller = 3
    /\ resp.req.body.is_read = {TRUE}
    /\ \E a \in ById(alerts, resp.req.alert_id) : a.user_id = 2 /\ ~a.is_read
    /\ \E a \in alerts : a.user_id = 3

(***************************************************************************)
(* User creations, one after the other (SpecUser) and overlapping          *)
(* (SpecUserRace), with taken and free emails and usernames.               *)
(***************************************************************************)
UserBody(email, username) ==
    [email |-> email, username |-> username, alert_threshold |-> UNSET,
     is_active |-> {}, is_superuser |-> {}]

UserEmails == {SeedEmail(1), "d@example.org", "e@example.org"}

UserUsernames == {SeedUsername(1), "d", "e"}

UserBodies == {UserBody(m, n) : m \in UserEmails, n \in UserUsernames}

UserUpdateBodies ==
    {UserBody("d@example.org", UnsetStr), UserBody(UnsetStr, "d"),
     UserBody(NullStr, UnsetStr)}

InitUser == InitWith({AdminUser})

NextUser ==
    \/ \E p \in UserBodies \cup {UserBody(NullStr, "d")} : create_user(p)
    \/ \E c \in 1 .. MaxUserId, p \in UserUpdateBodies : update_user_me(c, p)
    \/ Tick

SpecUser == InitUser /\ [][NextUser]_vars

NextUserRace ==
    \/ NextUser
    \/ \E p \in UserBodies : begin_create_user(p)
    \/ finish_create_user

SpecUserRace == InitUser /\ [][NextUserRace]_vars

\* no two stored users share an email or a username
C20_UniqueUsers ==
    \A u, v \in users :
       u.id # v.id => /\ u.email = NullStr \/ u.email # v.email
                      /\ u.username = NullStr \/ u.username # v.username

\* the step answers a request (it is not the first half of a creation)
C20_Answered == Cardinality(inflight') <= Cardinality(inflight)

\* C20: a user creation whose email or username equals that of a stored
\* user when it is carried out fails with the conflict failure (HTTP 400)
\* and leaves the stored users unchanged, and no two stored users share an
\* email or a username, also when creations overlap.
C20_DuplicateUserConflict ==
    [][/\ (resp'.op = "create_user" /\ C20_Answered) =>
            ((UserCreate(resp'.req)
               /\ (get_user_by_email(resp'.req.email) # {}
                    \/ get_user_by_username(resp'.req.username) # {}))
              => /\ resp'.status = 400
                 /\ users' = users)
       /\ C20_UniqueUsers']_vars

\* the part of C20 the code keeps when creations overlap: the duplicate is
\* refused, with 400 or 500, nothing is stored, and emails and usernames
\* stay unique
C20_DuplicateUserRefused ==
    [][/\ (resp'.op = "create_user" /\ C20_Answered) =>
            ((UserCreate(resp'.req)
               /\ (get_user_by_email(resp'.req.email) # {}
                    \/ get_user_by_username(resp'.req.username) # {}))
              => /\ resp'.status \in {400, 500}
                 /\ users' = users)
       /\ C20_UniqueUsers']_vars

\* an overlapping creation lost the race for its email and was answered 500
C20_RaceLost ==
    /\ resp.op = "create_user"
    /\ resp.status = 500
    /\ get_user_by_email(resp.req.email) # {}
    /\ get_user_by_username(resp.req.username) = {}

(***************************************************************************)
(* Service calls with a failing database, between successful requests.     *)
(***************************************************************************)
StorageBodies == {UserBody("d@example.org", "d"), UserBody("e@example.org", "e")}

NextStorage ==
    \/ \E p \in StorageBodies : create_user(p)
    \/ \E r \in {5, 8} : endpoint_create_fire_risk_zone(1, PredictedBody(3, 0, r))
    \/ \E p \in StorageBodies, at \in StorageFailurePoints : failing_create_user(p, at)
    \/ \E id \in 1 .. MaxUserId, at \in StorageFailurePoints :
          failing_update_user(id, UserBody("f@example.org", UnsetStr), at)
    \/ \E r \in {5, 8}, at \in StorageFailurePoints :
          failing_create_fire_risk_zone(PredictedBody(3, 0, r), at)
    \/ Tick

SpecStorage == InitUser /\ [][NextStorage]_vars

C21_FailingOps ==
    {"failing_create_user", "failing_update_user", "failing_create_fire_risk_zone"}

\* C21: when the storage backend fails during a repository operation,
\* nothing is persisted by a failed commit and the failure is raised to the
\* caller, not turned into a normal return value.
C21_StorageFailureRaised ==
    [][resp'.op \in C21_FailingOps =>
          /\ resp'.out.raised
          /\ resp'.req.at = "commit" => (users' = users /\ zones' = zones)]_vars

\* the part of C21 the code keeps: a failed commit persists nothing, and a
\* function that catches the failure has rolled back
C21_FailedCommitStoresNothing ==
    [][resp'.op \in C21_FailingOps =>
          /\ resp'.req.at = "commit" => (users' = users /\ zones' = zones)
          /\ ~resp'.out.raised => resp'.out.rolled_back]_vars

(***************************************************************************)
(* Requests and their sessions.  Every handler terminates: a request that  *)
(* holds a session ends, by a return or by an exception.                   *)
(***************************************************************************)
NextSession ==
    \/ request_arrives
    \/ \E raises \in BOOLEAN : get_db(raises)
    \/ \E raised \in BOOLEAN : request_ends(raised)
    \/ Tick

SpecSession ==
    /\ InitUser
    /\ [][NextSession]_vars
    /\ WF_vars(\E raises \in BOOLEAN : get_db(raises))
    /\ WF_vars(\E raised \in BOOLEAN : request_ends(raised))

C22_Open(id) == \E r \in sessions : r.req = id /\ r.session = "open"

C22_Closed(id) == \E r \in sessions : r.req = id /\ r.session = "closed"

ZoneRaceUpdates ==
    {ZoneUpdateOf(UnsetName, UNSET, 8, UnsetStr),
     ZoneUpdateOf(UnsetName, UNSET, 2, "Low"),
     ZoneUpdateOf(<<"c">>, 4, UNSET, UnsetStr),
     ZoneUpdateOf(<<"a">>, UNSET, UNSET, "Medium")}

NextZoneRace ==
    \/ Cardinality(zones) < 2 /\ endpoint_create_fire_risk_zone(1, IncidentZoneBody)
    \/ \E id \in 1 .. MaxZoneId, p \in ZoneRaceUpdates :
          endpoint_update_fire_risk_zone(1, id, p)
    \/ \E p \in ZoneRaceUpdates : begin_update_fire_risk_zone(1, 1, p)
    \/ finish_update_fire_risk_zone
    \/ zones = {} /\ Tick

SpecZoneRace == InitUser /\ [][NextZoneRace]_vars

\* the step is the commit of an update of a zone
C23_Commit ==
    /\ resp'.op = "update_fire_risk_zone"
    /\ Cardinality(inflight') <= Cardinality(inflight)
    /\ resp'.status \in {200, 500}
    /\ resp'.req.zone_id \in Ids(zones)

\* C23: two concurrent partial updates of the same zone both complete
\* without a conflict failure, and when an update commits, every field it
\* supplied holds the supplied value (it is the last to have written that
\* field) and every other field keeps the value stored before.
C23_LastWriteWins ==
    [][C23_Commit =>
          /\ resp'.status = 200
          /\ \E z \in zones :
                /\ z.id = resp'.req.zone_id
                /\ zones' = (zones \ {z}) \cup {C17_ZoneAfter(z, resp'.req.body)}]_vars

\* the part of C23 the code keeps: no update fails, a field that was not
\* supplied keeps its value, and a supplied field holds either the supplied
\* value or the value stored before the commit
C23_NoConflictFailure ==
    [][C23_Commit =>
          /\ resp'.status = 200
          /\ \E z \in zones, y \in zones' :
                /\ z.id = resp'.req.zone_id /\ y.id = z.id
                /\ zones' = (zones \ {z}) \cup {y}
                /\ y.timestamp = z.timestamp
                /\ y.risk_level \in {z.risk_level, resp'.req.body.risk_level}
                /\ resp'.req.body.risk_level = UNSET => y.risk_level = z.risk_level
                /\ resp'.req.body.latitude = UNSET => y.latitude = z.latitude
                /\ resp'.req.body.region_name = UnsetName
                      => y.region_name = z.region_name]_vars

\* an update that supplied risk_level 0.8 committed last and the zone holds
\* the risk_level 0.2 of the update that committed before it
C23_LostWrite ==
    /\ inflight = {}
    /\ resp.op = "update_fire_risk_zone"
    /\ resp.status = 200
    /\ resp.req.body.risk_level = 8
    /\ \E z \in zones : z.id = resp.req.zone_id /\ z.risk_level = 2

(***************************************************************************)
(* Predictions at three latitudes (two of them within the tolerance of     *)
(* each other) while time passes, and a zone whose region_name is set to   *)
(* null by the superuser.                                                  *)
(***************************************************************************)
PredictLatitudes == {3, 3 + DefaultTolerance, 3 + 3 * DefaultTolerance}

InitPredict == InitWith({AdminUser, PlainUser(2, TRUE, DefaultThreshold)})

NextPredict ==
    \/ \E la \in PredictLatitudes, r \in {5, 8} : predict_fire_risk_zone(2, la, 0, r)
    \/ endpoint_update_fire_risk_zone(1, 1, ZoneUpdateOf(NullName, UNSET, UNSET, UnsetStr))
    \/ Tick

SpecPredict == InitPredict /\ [][NextPredict]_vars

C24_Abs(x) == IF x < 0 THEN -x ELSE x

\* the stored zones within the default tolerance of the request's
\* coordinates that are less than one hour old
C24_RecentNear ==
    {z \in zones :
        /\ C24_Abs(z.latitude - resp'.req.latitude) <= DefaultTolerance
        /\ C24_Abs(z.longitude - resp'.req.longitude) <= DefaultTolerance
        /\ now - z.timestamp < Hour}

C24_Predicted == resp'.op = "predict_fire_risk_zone" /\ get_current_user(resp'.caller) = 200

C24_CreatesOnlyWithoutRecent ==
    zones' # zones =>
       /\ C24_RecentNear = {}
       /\ \E z \in zones' \ zones :
             /\ zones' = zones \cup {z}
             /\ z.latitude = resp'.req.latitude /\ z.longitude = resp'.req.longitude
             /\ z.timestamp = now

InitPredictRace ==
    InitWith({AdminUser, PlainUser(2, TRUE, DefaultThreshold),
              PlainUser(3, TRUE, DefaultThreshold)})

NextPredictSerial ==
    \/ \E c \in {2, 3}, la \in {3, 3 + DefaultTolerance}, r \in {5, 8} :
          predict_fire_risk_zone(c, la, 0, r)
    \/ Tick

SpecPredictSerial == InitPredictRace /\ [][NextPredictSerial]_vars

NextPredictRace ==
    \/ NextPredictSerial
    \/ \E c \in {2, 3}, la \in {3, 3 + DefaultTolerance}, r \in {5, 8} :
          begin_predict_fire_risk_zone(c, la, 0, r)
    \/ finish_predict_fire_risk_zone

SpecPredictRace == InitPredictRace /\ [][NextPredictRace]_vars

\* two zones at the same coordinates created less than one hour apart
C25_Twins(y, z) ==
    /\ y.id # z.id
    /\ y.latitude = z.latitude /\ y.longitude = z.longitude
    /\ C24_Abs(y.timestamp - z.timestamp) < Hour

\* C25: prediction requests for the same coordinates within one hour,
\* concurrent ones included, create at most one zone between them, and at
\* most one alert per user for it.
C25_OneZonePerHour ==
    /\ \A y, z \in zones : ~C25_Twins(y, z)
    /\ \A a, b \in alerts :
          (a.id # b.id /\ a.user_id = b.user_id) =>
             \A y \in ById(zones, a.risk_zone_id), z \in ById(zones, b.risk_zone_id) :
                y = z \/ ~C25_Twins(y, z)

\* two overlapping predictions of one user have stored two zones and two
\* alerts for the same coordinates and time
C25_Doubled ==
    /\ inflight = {}
    /\ \E y, z \in zones : C25_Twins(y, z)
    /\ \E a, b \in alerts :
          /\ a.id # b.id /\ a.user_id = b.user_id
          /\ a.risk_zone_id # b.risk_zone_id

(***************************************************************************)
(* Users who are not superusers create accounts and update their own       *)
(* profile, with payloads that name is_superuser and is_active.            *)
(***************************************************************************)
UserBodyWithFlags(email, username, is_active, is_superuser) ==
    [email |-> email, username |-> username, alert_threshold |-> UNSET,
     is_active |-> is_active, is_superuser |-> is_superuser]

NextPrivilege ==
    \/ \E m \in {"d@example.org", "e@example.org"} :
          create_user(UserBodyWithFlags(m, m, {FALSE}, {TRUE}))
    \/ \E c \in 2 .. MaxUserId, a \in {{}, {FALSE}}, su \in {{}, {TRUE}, {FALSE}} :
          update_user_me(c, UserBodyWithFlags(UnsetStr, UnsetStr, a, su))
    \/ \E c \in 2 .. MaxUserId : update_user_me(c, UserBody("f@example.org", UnsetStr))
    \/ Tick

SpecPrivilege == InitUser /\ [][NextPrivilege]_vars

\* the last request was issued without a token or by a user who is not a
\* superuser
C26_Unprivileged ==
    /\ resp'.op \in {"create_user", "update_user_me"}
    /\ \A u \in ById(users, resp'.caller) : ~u.is_superuser

\* every user stored by the step is active and not a superuser
C26_CreatedPlain ==
    \A v \in users' : v.id \notin Ids(users) => (v.is_active /\ ~v.is_superuser)

\* C26: no request issued by a user whose is_superuser is false changes any
\* user's is_superuser from false to true, and a user created through the
\* public endpoint is stored with is_superuser false and is_active true.
C26_NoSelfPromotion ==
    [][C26_Unprivileged =>
          /\ C26_CreatedPlain
          /\ \A u \in users, v \in users' :
                (u.id = v.id /\ ~u.is_superuser) => ~v.is_superuser]_vars

\* the part of C26 the code keeps: creation ignores the flags of the payload
C26_CreationIgnoresFlags ==
    [][C26_Unprivileged => C26_CreatedPlain]_vars

\* a user created through the public endpoint has made themselves superuser
C26_Promoted ==
    /\ resp.op = "update_user_me"
    /\ resp.status = 200
    /\ resp.caller # 1
    /\ resp.req.is_superuser = {TRUE}
    /\ \E u \in ById(users, resp.caller) : u.is_superuser

(***************************************************************************)
(* GET requests below /fire-risk/zones for stored and missing ids, for the *)
(* coordinate lookup and for unknown paths.                                *)
(***************************************************************************)
GetPaths ==
    {<<"zones">>, <<"zones", "1">>, <<"zones", "2">>, <<"zones", "3">>,
     <<"zones", "by-coordinates">>, <<"zones", "1", "incidents">>}

NextRoute ==
    \/ \E la \in {3, 5}, r \in {5, 8} :
          endpoint_create_fire_risk_zone(1, PredictedBody(la, 0, r))
    \/ \E id \in 1 .. MaxZoneId : endpoint_delete_fire_risk_zone(1, id)
    \/ \E c \in {0, 2}, path \in GetPaths, la \in {3, 5} : http_get(c, path, la, 0)
    \/ Tick

SpecRoute == InitPredict /\ [][NextRoute]_vars

\* the zones stored at exactly the coordinates of the last request
C27_ZonesAt(req) ==
    {z \in zones : z.latitude = req.latitude /\ z.longitude = req.longitude}

\* C27: a GET request for /zones/by-coordinates with latitude and longitude
\* is dispatched to the coordinate-lookup handler: it is never answered by
\* the router or by the validation of zone_id, and for a zone stored at
\* exactly those coordinates it returns a zone at those coordinates.
C27_ByCoordinatesDispatched ==
    [][/\ resp'.op = "http_get" =>
            (resp'.req.path = <<"zones", "by-coordinates">>
               => get_current_user(resp'.caller) # 200)
       /\ (resp'.op = "read_fire_risk_zone_by_coords"
             /\ get_current_user(resp'.caller) = 200
             /\ C27_ZonesAt(resp'.req) # {})
            => /\ resp'.status = 200
               /\ resp'.out # {}
               /\ resp'.out \subseteq C27_ZonesAt(resp'.req)]_vars

\* what the code does: the request is answered 422 by the validation of the
\* path parameter zone_id, and no request reaches the coordinate lookup
C27_ByCoordinatesShadowed ==
    [][/\ (resp'.op = "http_get"
             /\ resp'.req.path = <<"zones", "by-coordinates">>
             /\ get_current_user(resp'.caller) = 200) => resp'.status = 422
       /\ resp'.op # "read_fire_risk_zone_by_coords"]_vars

\* a GET /zones/by-coordinates at the coordinates of a stored zone answered 422
C27_Rejected ==
    /\ resp.op = "http_get"
    /\ resp.status = 422
    /\ resp.req.path = <<"zones", "by-coordinates">>
    /\ C27_ZonesAt(resp.req) # {}

(***************************************************************************)
(* Predictions over the whole range of risk levels, by a user whose        *)
(* alert_threshold is the default.                                         *)
(***************************************************************************)
BandRiskLevels == {0, 4, 5, 7, 8, RiskOne}

NextBand ==
    \/ \E la \in {3, 3 + 3 * DefaultTolerance}, r \in BandRiskLevels :
          predict_fire_risk_zone(2, la, 0, r)
    \/ Tick

SpecBand == InitPredict /\ [][NextBand]_vars

\* the last step is a prediction that created a zone
C28_Created ==
    /\ resp'.op = "predict_fire_risk_zone"
    /\ get_current_user(resp'.caller) = 200
    /\ resp'.out.created

\* the zone stored by the last step
C28_Zone == {z \in zones' : z.id \notin Ids(zones)}

\* the alerts stored by the last step for a user at the default threshold
C28_Alerts ==
    {a \in alerts' :
        /\ a.id \notin Ids(alerts)
        /\ \E u \in ById(users, a.user_id) : u.alert_threshold = DefaultThreshold}

\* risk_category follows the bands of risk_level
C28_Banded(z) ==
    /\ z.risk_category = "High" <=> z.risk_level > 7
    /\ z.risk_category = "Medium" <=> (4 < z.risk_level /\ z.risk_level <= 7)
    /\ z.risk_category = "Low" <=> z.risk_level <= 4

\* C28: every zone created by the prediction endpoint has the risk_category
\* of its risk_level band (High above 0.7, Medium above 0.4 up to 0.7, Low up
\* to 0.4), and an alert raised for a user at the default threshold 0.7
\* concerns a zone whose category is High.
C28_AlertedZoneIsHigh ==
    [][C28_Created =>
          /\ \A z \in C28_Zone : C28_Banded(z)
          /\ \A a \in C28_Alerts :
                \A z \in ById(zones', a.risk_zone_id) : z.risk_category = "High"]_vars

\* C28, amended: every zone created by the prediction endpoint has the
\* risk_category of its risk_level band, and an alert raised for a user at
\* the default threshold 0.7 concerns the created zone, whose risk_level is
\* at least 0.7: its category is High above 0.7 and Medium at exactly 0.7.
C28_AlertedZoneAtThreshold ==
    [][C28_Created =>
          /\ C28_Zone # {}
          /\ \A z \in C28_Zone : C28_Banded(z)
          /\ \A a \in C28_Alerts :
                /\ ById(zones', a.risk_zone_id) = C28_Zone
                /\ \A z \in C28_Zone :
                      /\ z.risk_level = a.risk_level
                      /\ z.risk_level >= DefaultThreshold
                      /\ z.risk_category =
                            (IF z.risk_level = DefaultThreshold THEN "Medium" ELSE "High")
          /\ \A z \in C28_Zone :
                (\E u \in ById(users, resp'.caller) :
                    u.alert_threshold = DefaultThreshold /\ z.risk_level >= DefaultThreshold)
                   => C28_Alerts # {}]_vars

\* an alert at the default threshold that concerns a Medium zone
C28_MediumAlert ==
    \E a \in alerts : \E z \in ById(zones, a.risk_zone_id) :
        /\ a.risk_level = DefaultThreshold
        /\ z.risk_level = a.risk_level
        /\ z.risk_category = "Medium"
        /\ \E u \in ById(users, a.user_id) : u.alert_threshold = DefaultThreshold

(***************************************************************************)
(* Alerts of two users whose is_read is set to true, to false and to null  *)
(* through PUT /alerts/{id}, then marked read.                             *)
(***************************************************************************)
\* the body {"is_read": null}
AlertUpdateNull == [AlertUpdateOf({}, {}, {}) EXCEPT !.nulls = {"is_read"}]

MarkAllUpdates ==
    {AlertUpdateOf({TRUE}, {}, {}), AlertUpdateOf({FALSE}, {}, {}), AlertUpdateNull}

NextMarkAll ==
    \/ \E c \in AlertCallers, la \in {3, 3 + 3 * DefaultTolerance} :
          predict_fire_risk_zone(c, la, 0, 8)
    \/ \E c \in AlertCallers, id \in 1 .. MaxAlertId, p \in MarkAllUpdates :
          update_alert(c, id, p)
    \/ \E c \in AlertCallers : delete_alert(c, 1)
    \/ \E c \in {0} \cup AlertCallers : mark_all_alerts_read(c)
    \/ alerts = {} /\ Tick

SpecMarkAll == InitOwnAlert /\ [][NextMarkAll]_vars

\* the last step is a mark-all-read of an authenticated user
C29_Marked == resp'.op = "mark_all_alerts_read" /\ resp'.status = 200

\* no alert is created or deleted, the alerts of the other users are
\* unchanged, and a repeated mark-all-read changes nothing
C29_Frame ==
    /\ C29_Marked =>
          /\ Ids(alerts') = Ids(alerts)
          /\ \A a \in alerts : a.user_id # resp'.caller => a \in alerts'
          /\ UNCHANGED <<users, zones, incidents, regions>>
    /\ (C29_Marked /\ resp.op = "mark_all_alerts_read" /\ resp.status = 200
          /\ resp.caller = resp'.caller) => alerts' = alerts

\* C29: after mark-all-read for a user, every stored alert of that user has
\* is_read true, every alert of every other user is unchanged, no alert is
\* created or deleted, and repeating the operation changes nothing further.
C29_AllRead ==
    [][/\ C29_Frame
       /\ C29_Marked =>
             \A a \in alerts' :
                a.user_id = resp'.caller => (a.is_read /\ "is_read" \notin a.nulls)]_vars

\* the part of C29 the code keeps: the frame, idempotence, and is_read true
\* for every alert of the user whose is_read was false
C29_UnreadMarked ==
    [][/\ C29_Frame
       /\ C29_Marked =>
             \A a \in alerts, b \in alerts' :
                (a.id = b.id /\ a.user_id = resp'.caller /\ "is_read" \notin a.nulls)
                   => (b.is_read /\ b.nulls = a.nulls)]_vars

\* mark-all-read has answered 200 and an alert of the caller is not read
C29_StillUnread ==
    /\ resp.op = "mark_all_alerts_read"
    /\ resp.status = 200
    /\ \E a \in alerts : a.user_id = resp.caller /\ "is_read" \in a.nulls /\ ~a.is_read
    /\ \E a \in alerts : a.user_id = resp.caller /\ a.is_read

(***************************************************************************)
(* Runs of the real-time job, one after the other, on fetched data with    *)
(* rows that repeat a hotspot or carry a name contained in another, each   *)
(* run ended by its commit or by an exception.                             *)
(***************************************************************************)
FirmsRow(confidence) ==
    [latitude |-> 3000, longitude |-> -7000, acq_date |-> 1, confidence |-> confidence]

NifcRow(name) ==
    [IncidentName |-> name, Latitude |-> 3000, Longitude |-> -7000,
     FireDiscoveryDateTime |-> 1, CalculatedAcres |-> 2000, PercentContained |-> 80]

FirmsFetches == {<<>>, <<FirmsRow("high")>>, <<FirmsRow("high"), FirmsRow("low")>>}

NifcFetches ==
    {<<>>, <<NifcRow(<<"CA", "Ridge", "Fire">>)>>,
     <<NifcRow(<<"Ridge">>), NifcRow(<<"CA", "Ridge", "Fire">>)>>}

NextRun ==
    \/ \E f \in FirmsFetches, n \in NifcFetches : begin_update_database(f, n)
    \/ update_database_row(5)
    \/ update_database_except
    \/ update_database_commit
    \/ \E written \in 0 .. 2 : update_fire_data(written)
    \/ inflight = {} /\ Tick

SpecRun == InitIngest /\ [][NextRun]_vars

\* the last step ended the try block of a run with this status
C30_Ended(status) ==
    /\ resp'.op = "update_database"
    /\ resp'.status = status
    /\ \E r \in inflight : ~r.committed /\ r \notin inflight'

\* every fetched row of the request is stored as an incident in S
C30_AllStored(req, S) ==
    /\ \A k \in 1 .. Len(req.firms_df) :
          \E i \in S : /\ i.latitude = req.firms_df[k].latitude
                       /\ i.longitude = req.firms_df[k].longitude
                       /\ i.start_date = req.firms_df[k].acq_date
    /\ \A k \in 1 .. Len(req.nifc_df) :
          \E i \in S : /\ i.latitude = req.nifc_df[k].Latitude
                       /\ i.longitude = req.nifc_df[k].Longitude
                       /\ Like(i.description, req.nifc_df[k].IncidentName)

\* the tables change in the commit of a run only, which stores every row the
\* run has added together; a run ended by an exception stores nothing
C30_Atomic ==
    /\ (zones' # zones \/ incidents' # incidents \/ alerts' # alerts) =>
          /\ C30_Ended(200)
          /\ \E r \in inflight :
                /\ r.pos = RunRows(r)
                /\ zones' = zones \cup r.zones
                /\ incidents' = incidents \cup r.incidents
                /\ alerts' = alerts \cup r.alerts
                /\ Cardinality(r.zones) = Cardinality(r.incidents)
    /\ C30_Ended(200) => C30_AllStored(resp'.req, incidents')
    /\ C30_Ended(500) => UNCHANGED <<zones, incidents, alerts, firebase>>

\* Firebase is written by a run whose commit has returned, with the
\* incidents and zones that commit stored
C30_MirrorAfterCommit ==
    firebase' # firebase =>
       /\ \E r \in inflight : r.committed
       /\ UNCHANGED <<zones, incidents, alerts>>
       /\ Ids(firebase'.fire_incidents) \subseteq Ids(incidents)
       /\ Ids(firebase'.risk_zones) \subseteq Ids(zones)

\* a run on the data of the committed run before it adds nothing
C30_Idempotent ==
    (/\ C30_Ended(200)
     /\ resp.op = "update_database"
     /\ resp.status = 200
     /\ resp.req = resp'.req) => UNCHANGED <<zones, incidents, alerts>>

\* C30: one run of the real-time job stores its zones, incidents and alerts
\* all together or not at all (an exception rolls the whole run back),
\* Firebase is written only after the commit has succeeded, and a run on the
\* data of the run before it adds no further incident.
C30_RunAtomicMirroredIdempotent ==
    [][C30_Atomic /\ C30_MirrorAfterCommit /\ C30_Idempotent]_vars

\* a committed run has added nothing: its rows were stored and mirrored by
\* an earlier run, with the zones and alerts of that run
C30_Witness ==
    /\ resp.op = "update_database"
    /\ resp.status = 200
    /\ resp.out = {}
    /\ Len(resp.req.firms_df) + Len(resp.req.nifc_df) = 3
    /\ C30_AllStored(resp.req, incidents)
    /\ Cardinality(incidents) = 2
    /\ Cardinality(zones) = 2
    /\ Cardinality(alerts) = 2
    /\ Ids(firebase.fire_incidents) = Ids(incidents)
    /\ Ids(firebase.risk_zones) = Ids(zones)

====
